---- MODULE Spec2Model ----
(***************************************************************************)
(* The agent reasoning / tool-execution loop of vindao_agents:             *)
(*   Agent.instruct / Agent.invoke   (src/src/vindao_agents/Agent.py)      *)
(*   AgentState.add_message          (src/src/vindao_agents/models/agent.py)*)
(*   AtSyntaxParser.parse            (ToolParsers/AtSyntaxParser.py)       *)
(* Text is a sequence of one-character strings.  invoke is a generator:    *)
(* one action is one resumption of it, from a yield to the next yield (or  *)
(* to its return or to a propagated exception).                            *)
(***************************************************************************)
EXTENDS Integers, Sequences, FiniteSets, TLC

VARIABLES
    config,                 \* Agent.config: max_iterations, auto_save
    tools,                  \* Agent.tools: the registry's keys, in insertion order
    state,                  \* Agent.state: session_id, created_at, updated_at, messages
    clock,                  \* what datetime.now(UTC).timestamp() returns
    pc,                     \* where the generator of the current run stands
    entry,                  \* how the current run was started: "instruct" or "invoke"
    instruction,            \* the argument of the pending instruct() call
    iteration,              \* invoke's parameter iteration, of the current round
    max_iterations,         \* invoke's parameter max_iterations, after line 118
    accumulated_content,    \* invoke's local of the current round
    accumulated_reasoning,  \* invoke's local of the current round
    tool_call_enabled,      \* invoke's local of the current round
    tool_call_obj,          \* the ToolCall yielded at line 146, not yet recorded
    next_id,                \* the uuids handed out so far (ToolCall.id)
    store,                  \* what self.store.save wrote: the saved snapshots, in order
    sent,                   \* the message sequence of the latest provider request
    received,               \* history: the chunks invoke received in the current round
    warned,                 \* history: the current round appended the max-iterations message
    run_start,              \* history: Len(messages) when the current run was created
    rounds,                 \* history: provider requests of the current run
    execs,                  \* history: tool executions of the current run
    round_execs,            \* history: tool executions of the current round
    round_items,            \* history: tool items yielded in the current round
    events,                 \* history: runs started, chunks emitted and clock ticks so far
    tool_exc,               \* history: what the tool execution of the current round raised
    yielded,                \* history: the items the current run has yielded to its consumer
    ptext, pnames, presult, \* the parser exercised on its own: input text, names, result
    xcall,                  \* the executor exercised on its own: its argument tool_call
    xtool,                  \* its argument tool
    xout,                   \* how execute_tool_call ended: the value returned or the exception
    xresult,                \* result of Agent.py line 144: str() of what it returned
    cpc,                    \* where complete_chat stands
    messages,               \* complete_chat's parameter messages: the caller's list
    max_retries,            \* complete_chat's parameter max_retries
    retry,                  \* complete_chat's parameter retry, of the current attempt
    delivered,              \* the items complete_chat has yielded to its caller
    attempts,               \* history: provider calls of the current invocation
    failures,               \* history: failed attempts of the current invocation
    sleeps,                 \* history: the durations slept in the current invocation
    attempt_chunks,         \* history: the chunks the provider streamed in the current attempt
    attempt_start,          \* history: Len(delivered) when the current attempt was made
    chat_log,               \* history: provider calls and sleeps of the invocation, in order
    chat_events,            \* history: invocations started and chunks streamed so far
    called_with,            \* history: the content of messages when complete_chat was called
    requests,               \* history: what each provider call was built from and given
    defaults,               \* the default values of Agent.__init__'s parameters
    agents,                 \* the Agent instances constructed in the process, in order
    ctor,                   \* history: which arguments each of them was constructed with
    files,                  \* the file system: the JSON document at each path
    writes,                 \* history: the saves made, in order
    loaded,                 \* how the latest from_session_id or from_json_file ended
    ops                     \* history: constructions, appends, saves and loads so far

loopvars == <<config, tools, state, clock, pc, entry, instruction, iteration,
              max_iterations, accumulated_content, accumulated_reasoning,
              tool_call_enabled, tool_call_obj, next_id, store, sent, received,
              warned, run_start, rounds, execs, round_execs, round_items,
              events, tool_exc, yielded>>

parsevars == <<ptext, pnames, presult>>

execvars == <<xcall, xtool, xout, xresult>>

chatvars == <<cpc, max_retries, retry, delivered, attempts, failures, sleeps,
              attempt_chunks, attempt_start, chat_log, chat_events, messages,
              called_with, requests>>

storevars == <<defaults, agents, ctor, files, writes, loaded, ops>>

vars == <<loopvars, parsevars, execvars, chatvars, storevars>>

----------------------------------------------------------------------------
(* Bounds of the model *)

\* what the environment does in one behaviour: the runs it starts (instruct or
\* invoke calls), the chunks the provider emits and the ticks of the wall clock
MaxEvents == 3

\* length of the texts the parser is exercised on
MaxLen == 8

\* number of pieces of the texts the parser is exercised on
MaxPieces == 6

\* nesting depth of the call expressions the executor is exercised on
MaxDepth == 2

\* constructions, appends, saves and loads in one behaviour of the store
MaxOps == 4

\* instruct() runs of one behaviour of the loop over complete_chat
MaxRuns == 1

\* chunks the provider streams in one behaviour of the loop over complete_chat
MaxChunks == 2

----------------------------------------------------------------------------
(* Text *)

\* "@DISABLE_TOOL_CALL@", Agent.py lines 138, 159, 160
Marker == <<"@", "D", "I", "S", "A", "B", "L", "E", "_", "T", "O", "O", "L",
            "_", "C", "A", "L", "L", "@">>

\* the content of the UserMessage of Agent.py line 126, as one unit of text
MaxIterationsText == <<"You have reached the maximum number of iterations. Please provide a summary without further tool usage.">>

\* Python's None in a text field
NoneText == <<"None">>

\* str.isspace() of one character
IsSpace(c) == c \in {" ", "\n", "\t"}

\* str.startswith
StartsWith(s, prefix) ==
    /\ Len(s) >= Len(prefix)
    /\ SubSeq(s, 1, Len(prefix)) = prefix

\* sub occurs in s at index p
OccursAt(s, sub, p) ==
    /\ p >= 1
    /\ p + Len(sub) - 1 <= Len(s)
    /\ SubSeq(s, p, p + Len(sub) - 1) = sub

\* Python's `sub in s`
Contains(s, sub) == \E p \in 1..(Len(s) + 1) : OccursAt(s, sub, p)

\* str.find, 1-based; 0 when sub does not occur
Find(s, sub) ==
    IF Contains(s, sub)
    THEN CHOOSE p \in 1..(Len(s) + 1) :
            /\ OccursAt(s, sub, p)
            /\ \A q \in 1..(p - 1) : ~OccursAt(s, sub, q)
    ELSE 0

\* s.replace(old, "", 1): the first occurrence of old removed
RemoveFirst(s, old) ==
    LET p == Find(s, old)
    IN  IF p = 0 THEN s
        ELSE SubSeq(s, 1, p - 1) \o SubSeq(s, p + Len(old), Len(s))

\* str.lstrip()
RECURSIVE LStrip(_)
LStrip(s) ==
    IF s # <<>> /\ IsSpace(Head(s)) THEN LStrip(Tail(s)) ELSE s

\* str.rstrip()
RECURSIVE RStrip(_)
RStrip(s) ==
    IF s # <<>> /\ IsSpace(s[Len(s)]) THEN RStrip(SubSeq(s, 1, Len(s) - 1)) ELSE s

\* str.strip()
Strip(s) == RStrip(LStrip(s))

----------------------------------------------------------------------------
(* AtSyntaxParser.parse: re.search of the pattern of line 34: an "@", one  *)
(* of the names, optional white space, "(", an argument text in which      *)
(* every inner "(" is closed by a ")" before another "(" opens, and ")".   *)

\* parse's "no match"
NoMatch == [name |-> <<"None">>, call |-> <<"None">>]

\* "|".join(names) inside a group: an empty list leaves the empty alternative
Alternatives(tool_names) ==
    IF tool_names = <<>> THEN << <<>> >> ELSE tool_names

\* optional white space: the index of the first non-space character from index i on
RECURSIVE SkipSpace(_, _)
SkipSpace(content, i) ==
    IF i <= Len(content) /\ IsSpace(content[i]) THEN SkipSpace(content, i + 1) ELSE i

\* the argument text and the closing parenthesis from index i, inside `depth`
\* inner parentheses: the index of the closing parenthesis, 0 when there is no
\* match.
\* The pattern has no third level: "(" at depth 1 fails the match.
RECURSIVE ArgsEnd(_, _, _)
ArgsEnd(content, i, depth) ==
    IF i > Len(content) THEN 0
    ELSE IF content[i] = "("
         THEN IF depth = 1 THEN 0 ELSE ArgsEnd(content, i + 1, 1)
    ELSE IF content[i] = ")"
         THEN IF depth = 0 THEN i ELSE ArgsEnd(content, i + 1, 0)
    ELSE ArgsEnd(content, i + 1, depth)

\* the pattern tried at index p with one alternative: the index of the last
\* matched character, 0 when there is no match
MatchName(content, p, name) ==
    IF /\ p <= Len(content)
       /\ content[p] = "@"
       /\ OccursAt(content, name, p + 1)
    THEN LET q == SkipSpace(content, p + 1 + Len(name))
         IN  IF q <= Len(content) /\ content[q] = "("
             THEN ArgsEnd(content, q + 1, 0)
             ELSE 0
    ELSE 0

\* the alternatives are tried in the order of the list: the index of the first
\* that matches at p, 0 when none does
FirstAlternative(content, p, alts) ==
    IF \E k \in 1..Len(alts) : MatchName(content, p, alts[k]) # 0
    THEN CHOOSE k \in 1..Len(alts) :
            /\ MatchName(content, p, alts[k]) # 0
            /\ \A j \in 1..(k - 1) : MatchName(content, p, alts[j]) = 0
    ELSE 0

\* the pattern matches at index p
MatchesAt(content, p, tool_names) ==
    FirstAlternative(content, p, Alternatives(tool_names)) # 0

\* parse that returns the rightmost match
parse_LastMatch(content, tool_names) ==
    IF \E p \in 1..Len(content) : MatchesAt(content, p, tool_names)
    THEN LET alts == Alternatives(tool_names)
             p == CHOOSE x \in 1..Len(content) :
                    /\ MatchesAt(content, x, tool_names)
                    /\ \A y \in (x + 1)..Len(content) : ~MatchesAt(content, y, tool_names)
             k == FirstAlternative(content, p, alts)
             e == MatchName(content, p, alts[k])
         IN  [name |-> alts[k], call |-> SubSeq(content, p + 1, e)]
    ELSE NoMatch

\* AtSyntaxParser.parse: (group(1), group(0)[1:]) of the leftmost match
parse(content, tool_names) ==
    IF \E p \in 1..Len(content) : MatchesAt(content, p, tool_names)
    THEN LET alts == Alternatives(tool_names)
             p == CHOOSE x \in 1..Len(content) :
                    /\ MatchesAt(content, x, tool_names)
                    /\ \A y \in 1..(x - 1) : ~MatchesAt(content, y, tool_names)
             k == FirstAlternative(content, p, alts)
             e == MatchName(content, p, alts[k])
         IN  [name |-> alts[k], call |-> SubSeq(content, p + 1, e)]
    ELSE NoMatch

----------------------------------------------------------------------------
(* Messages, tool calls, conversation state *)

\* "no ToolCall": tool_call=None of AssistantMessage; real ids start at 1
NoToolCall == [name |-> NoneText, call |-> NoneText, id |-> 0, result |-> NoneText]

\* ToolCall(name=..., call=..., result=...), with a fresh id
ToolCall(name, call, id, result) ==
    [name |-> name, call |-> call, id |-> id, result |-> result]

SystemMessage(content) ==
    [role |-> "system", content |-> content, reasoning_content |-> NoneText,
     name |-> NoneText, tool_call |-> NoToolCall]

UserMessage(content) ==
    [role |-> "user", content |-> content, reasoning_content |-> NoneText,
     name |-> NoneText, tool_call |-> NoToolCall]

AssistantMessage(content, reasoning_content, tool_call) ==
    [role |-> "assistant", content |-> content,
     reasoning_content |-> reasoning_content,
     name |-> NoneText, tool_call |-> tool_call]

ToolMessage(content, name, tool_call) ==
    [role |-> "tool", content |-> content, reasoning_content |-> NoneText,
     name |-> name, tool_call |-> tool_call]

\* the fields of each message class (models/messages.py); BaseMessage.id, a
\* uuid nothing in the loop reads, is not part of the message records
Fields(role) ==
    CASE role = "system"    -> {"content", "role"}
      [] role = "user"      -> {"content", "role", "name"}
      [] role = "assistant" -> {"content", "role", "reasoning_content", "name", "tool_call"}
      [] role = "tool"      -> {"content", "role", "name", "tool_call"}

\* message.model_dump(include=...): a dict of the fields of the message's
\* class that are asked for
model_dump(message, include) ==
    [f \in Fields(message.role) \cap include |-> message[f]]

AllFields == {"content", "role", "reasoning_content", "name", "tool_call"}

\* add_message that leaves updated_at alone
add_message_StaleTimestamp(s, message, now) ==
    [s EXCEPT !.messages = Append(@, message)]

\* add_message that also restamps created_at
add_message_Restamp(s, message, now) ==
    [s EXCEPT !.messages = Append(@, message), !.updated_at = now, !.created_at = now]

\* AgentState.add_message at wall-clock time now
add_message(s, message, now) ==
    [s EXCEPT !.messages = Append(@, message), !.updated_at = now]

\* JsonAgentStore.save: the record written under the session's key
Snapshot(cfg, s) == [key |-> s.session_id, config |-> cfg, state |-> s]

----------------------------------------------------------------------------
(* The environment: registries, what the model streams, what tools return *)

\* registered tool names
NameT == <<"t">>

\* the default of __init__'s parameter max_iterations
DefaultMaxIterations == 15

\* the registries an agent is constructed with (list(self.tools.keys()))
Registries == {<<>>, <<NameT>>}

\* the iteration budgets an agent is constructed with
Budgets == 0..3

Instructions == {<<"Hi">>}

SystemPrompt == <<"system prompt">>

\* pieces of model output
Call == <<"@", "t", "(", ")">>
CallHead == <<"@", "t", "(">>
CallTail == <<")">>
NoNameCall == <<"@", "(", ")">>
Plain == <<" ", "x">>
MarkerHead == SubSeq(Marker, 1, 9)
MarkerTail == SubSeq(Marker, 10, Len(Marker))

ContentTexts ==
    {Call, CallHead, CallTail, NoNameCall, Plain, Call \o Call,
     Marker, MarkerHead, MarkerTail \o Call, Marker \o Call}

ReasoningTexts == {Call}

\* what complete_chat yields: (text, kind)
Chunks ==
    {[text |-> t, kind |-> "content"] : t \in ContentTexts}
      \cup {[text |-> t, kind |-> "reasoning"] : t \in ReasoningTexts}

\* what the registered callables do when called
ToolFuncs == {"five", "broken", "exits", "echo"}

----------------------------------------------------------------------------
(* Python values, exceptions and what a call or an evaluation comes to *)

\* a value: its type and its text form
NoneValue == [type |-> "NoneType", text |-> NoneText]
IntValue(text) == [type |-> "int", text |-> text]
StrValue(text) == [type |-> "str", text |-> text]
Function(name) == [type |-> "function", text |-> name]
Module(name) == [type |-> "module", text |-> name]

\* an exception: its type, its message, and whether it derives from Exception
\* (SystemExit, KeyboardInterrupt and GeneratorExit derive from BaseException only)
NoException == [type |-> "None", msg |-> "None", ordinary |-> TRUE]
SyntaxError == [type |-> "SyntaxError", msg |-> "invalid syntax", ordinary |-> TRUE]
NameError == [type |-> "NameError", msg |-> "name is not defined", ordinary |-> TRUE]
TypeError == [type |-> "TypeError", msg |-> "unsupported argument", ordinary |-> TRUE]
ZeroDivisionError ==
    [type |-> "ZeroDivisionError", msg |-> "division by zero", ordinary |-> TRUE]
ModuleNotFoundError ==
    [type |-> "ModuleNotFoundError", msg |-> "No module named", ordinary |-> TRUE]
SystemExit == [type |-> "SystemExit", msg |-> "", ordinary |-> FALSE]

\* how a call or an evaluation ends: it returns a value or it raises
Return(value) == [kind |-> "return", value |-> value, exc |-> NoException]
Raise(exc) == [kind |-> "raise", value |-> NoneValue, exc |-> exc]

Digits == <<"0", "1", "2", "3", "4", "5", "6", "7", "8", "9">>

\* str(n) of a natural number
RECURSIVE IntText(_)
IntText(n) ==
    IF n < 10 THEN <<Digits[n + 1]>>
    ELSE IntText(n \div 10) \o <<Digits[(n % 10) + 1]>>

\* str(value)
str(value) ==
    StrValue(IF value.type \in {"int", "str"} THEN value.text
             ELSE <<"<", value.type, " ">> \o value.text \o <<">">>)

\* Tool(func): the name and the callable
Tool(name, func) == [name |-> name, func |-> Function(<<func>>)]

\* the names of the builtins module that the expressions here refer to
\* (exit is put there by the site module)
Builtins == {<<"len">>, <<"__import__">>, <<"exit">>}

\* calling a value with a sequence of argument values
Apply(f, args) ==
    IF f.type # "function" THEN Raise(TypeError)
    ELSE CASE f.text = <<"five">> ->
                  IF args = <<>> THEN Return(IntValue(<<"5">>)) ELSE Raise(TypeError)
           [] f.text = <<"broken">> ->
                  IF args = <<>> THEN Raise(ZeroDivisionError) ELSE Raise(TypeError)
           [] f.text = <<"exits">> ->
                  IF args = <<>> THEN Raise(SystemExit) ELSE Raise(TypeError)
           [] f.text = <<"echo">> ->
                  IF Len(args) = 1 THEN Return(args[1]) ELSE Raise(TypeError)
           [] f.text = <<"len">> ->
                  IF Len(args) = 1 /\ args[1].type = "str"
                  THEN Return(IntValue(IntText(Len(args[1].text))))
                  ELSE Raise(TypeError)
           [] f.text = <<"__import__">> ->
                  IF Len(args) = 1 /\ args[1].type = "str"
                  THEN IF args[1].text = <<"o", "s">>
                       THEN Return(Module(<<"os">>))
                       ELSE Raise(ModuleNotFoundError)
                  ELSE Raise(TypeError)
           [] f.text = <<"exit">> -> Raise(SystemExit)
           [] OTHER -> Raise(TypeError)

----------------------------------------------------------------------------
(* eval(expression, globals) for expressions made of names, integer and     *)
(* string literals and calls with at most one argument                      *)

Quote == "'"

\* a character of a name or a number
IsWordChar(c) == ~IsSpace(c) /\ c \notin {"(", ")", Quote, "@"}

\* the index of the first quote character from index i on, 0 when there is none
NextQuote(text, i) ==
    IF \E j \in i..Len(text) : text[j] = Quote
    THEN CHOOSE j \in i..Len(text) :
            /\ text[j] = Quote
            /\ \A h \in i..(j - 1) : text[h] # Quote
    ELSE 0

\* the tokens of the text from index i on, `word` being the name or number
\* read so far; a string literal that is not closed leaves a lone quote token
RECURSIVE Lex(_, _, _)
Lex(text, i, word) ==
    LET flush == IF word = <<>> THEN <<>> ELSE <<word>>
    IN  IF i > Len(text) THEN flush
        ELSE IF IsWordChar(text[i]) THEN Lex(text, i + 1, Append(word, text[i]))
        ELSE IF IsSpace(text[i]) THEN flush \o Lex(text, i + 1, <<>>)
        ELSE IF text[i] = Quote
             THEN LET j == NextQuote(text, i + 1)
                  IN  IF j = 0 THEN flush \o << <<Quote>> >>
                      ELSE flush \o <<SubSeq(text, i, j)>> \o Lex(text, j + 1, <<>>)
        ELSE flush \o << <<text[i]>> >> \o Lex(text, i + 1, <<>>)

IsString(tok) == Len(tok) >= 2 /\ tok[1] = Quote /\ tok[Len(tok)] = Quote

IsNumber(tok) ==
    \A i \in 1..Len(tok) : \E d \in 1..Len(Digits) : tok[i] = Digits[d]

IsName(tok) ==
    /\ IsWordChar(tok[1])
    /\ ~ \E d \in 1..Len(Digits) : tok[1] = Digits[d]

IsAtom(tok) == IsString(tok) \/ IsNumber(tok) \/ IsName(tok)

\* the expression that starts at token i: the index after its last token,
\* 0 when no expression starts there
RECURSIVE ExprEnd(_, _)
ExprEnd(toks, i) ==
    IF i > Len(toks) \/ ~IsAtom(toks[i]) THEN 0
    ELSE IF i + 1 <= Len(toks) /\ toks[i + 1] = <<"(">>
         THEN IF i + 2 <= Len(toks) /\ toks[i + 2] = <<")">> THEN i + 3
              ELSE LET a == ExprEnd(toks, i + 2)
                   IN  IF a # 0 /\ a <= Len(toks) /\ toks[a] = <<")">>
                       THEN a + 1
                       ELSE 0
    ELSE i + 1

\* the text compiles
IsExpression(toks) == ExprEnd(toks, 1) = Len(toks) + 1

\* a name is looked up in globals, then in the builtins module: eval puts
\* __builtins__ into a globals dictionary that lacks it
Lookup(tok, globals) ==
    IF tok = globals.name THEN Return(globals.func)
    ELSE IF tok \in Builtins THEN Return(Function(tok))
    ELSE Raise(NameError)

\* the value of a name or literal
Atom(tok, globals) ==
    IF IsString(tok) THEN Return(StrValue(SubSeq(tok, 2, Len(tok) - 1)))
    ELSE IF IsNumber(tok) THEN Return(IntValue(tok))
    ELSE Lookup(tok, globals)

\* the expression that starts at token i is evaluated: the callee first, then
\* the argument, then the call
RECURSIVE EvalAt(_, _, _)
EvalAt(toks, i, globals) ==
    LET head == Atom(toks[i], globals)
    IN  IF ~(i + 1 <= Len(toks) /\ toks[i + 1] = <<"(">>) THEN head
        ELSE IF head.kind = "raise" THEN head
        ELSE IF toks[i + 2] = <<")">> THEN Apply(head.value, <<>>)
        ELSE LET arg == EvalAt(toks, i + 2, globals)
             IN  IF arg.kind = "raise" THEN arg
                 ELSE Apply(head.value, <<arg.value>>)

\* eval(expression, globals), globals binding one name: the tool's
eval(expression, globals) ==
    LET toks == Lex(expression, 1, <<>>)
    IN  IF IsExpression(toks) THEN EvalAt(toks, 1, globals) ELSE Raise(SyntaxError)

\* format_exception(exc): the traceback, stripped, and "Type: message" after it
format_exception(exc) ==
    <<"Traceback (most recent call last):", exc.type, ": ", exc.msg,
      exc.type, ": ", exc.msg>>

\* execute_tool_call that coerces what the tool returned to text
execute_tool_call_Coerced(tool_call, tool) ==
    LET r == eval(tool_call, tool)
    IN  IF r.kind = "raise" /\ r.exc.ordinary
        THEN Return(StrValue(format_exception(r.exc)))
        ELSE IF r.kind = "return" THEN Return(str(r.value))
        ELSE r

\* execute_tool_call: what eval returned, the formatted exception when it
\* raised an Exception; any other exception leaves the function
execute_tool_call(tool_call, tool) ==
    LET r == eval(tool_call, tool)
    IN  IF r.kind = "raise" /\ r.exc.ordinary
        THEN Return(StrValue(format_exception(r.exc)))
        ELSE r

----------------------------------------------------------------------------
(* Persistence: Agent.__init__, JsonAgentStore.save, save_agent_state,      *)
(* Agent.from_json_string, from_json_file, from_session_id.  A path is the  *)
(* sequence of its components, a component is a text; a file holds the JSON *)
(* document json.dump wrote, which json.loads reads back as the same dict.  *)

FileNotFoundError ==
    [type |-> "FileNotFoundError", msg |-> "No such file or directory", ordinary |-> TRUE]
ValueError == [type |-> "ValueError", msg |-> "Unknown message type", ordinary |-> TRUE]
ValidationError == [type |-> "ValidationError", msg |-> "Field required", ordinary |-> TRUE]

\* a class given as an argument (LiteLLMInferenceAdapter, AtSyntaxParser)
Class(name) == [type |-> "type", text |-> name]

\* isinstance(value, str)
IsStr(value) == value.type = "str"

\* the directories an agent's data is kept in
DataDir == <<<<"data">>>>
SessionsDir == <<<<"data">>, <<"sessions">>>>
UserDataDirs == {DataDir, SessionsDir}

\* the session ids a caller passes, and the uuid4().hex the def statement of
\* Agent.__init__ (line 56) evaluated when the class body was executed
SessionIds == {"a"}
DefTimeUuid == "u1"

\* the messages a caller restores a conversation from
Restored ==
    LET call == ToolCall(NameT, <<"t", "(", ")">>, 1, <<"5">>)
    IN  <<SystemMessage(SystemPrompt), UserMessage(<<"Hi">>),
          AssistantMessage(<<"@", "t", "(", ")">>, <<"r">>, call),
          ToolMessage(call.result, call.name, call)>>

\* Agent.__init__ lines 65-97 with the keyword arguments kw: config and state
Agent(kw) ==
    [config |->
        [tools |-> kw.tools,
         max_iterations |-> kw.max_iterations,
         auto_save |-> kw.auto_save,
         user_data_dir |-> kw.user_data_dir,
         inference_adapter |->
            IF IsStr(kw.inference_adapter) THEN kw.inference_adapter.text
            ELSE <<"litellm">>,
         parser |-> IF IsStr(kw.parser) THEN kw.parser.text ELSE <<"at_syntax">>],
     state |->
        [session_id |-> kw.session_id,
         created_at |-> kw.created_at,
         updated_at |-> kw.updated_at,
         messages |-> IF kw.messages = <<>>
                      THEN <<SystemMessage(SystemPrompt)>>
                      ELSE kw.messages]]

\* "no agent": what a failed load leaves
NoAgent == [config |-> <<>>, state |-> <<>>]

\* lines 22-25 of JsonAgentStore.save: config.model_dump() and
\* state.model_dump(), every message dumped with the fields of its class
Data(agent) ==
    [config |-> agent.config,
     state |->
        [session_id |-> agent.state.session_id,
         created_at |-> agent.state.created_at,
         updated_at |-> agent.state.updated_at,
         messages |-> [i \in 1..Len(agent.state.messages) |->
                          model_dump(agent.state.messages[i], AllFields)]]]

\* JsonAgentStore.save lines 16-17: user_data_dir / "<session_id>.json"
DefaultPath(agent) ==
    agent.config.user_data_dir \o <<<<agent.state.session_id, ".json">>>>

\* save_agent_state line 12: user_data_dir / "sessions" / "<session_id>_state.json"
StatePath(agent) ==
    agent.config.user_data_dir
        \o <<<<"sessions">>, <<agent.state.session_id, "_state.json">>>>

\* from_session_id lines 211-213: base / "sessions" / "<session_id>.json"
SessionPath(session_id, user_data_dir) ==
    user_data_dir \o <<<<"sessions">>, <<session_id, ".json">>>>

\* Write that leaves a file that exists as it is
Write_KeepExisting(fs, path, data) ==
    [q \in DOMAIN fs \cup {path} |-> IF q \in DOMAIN fs THEN fs[q] ELSE data]

\* open(path, "w") and json.dump: the file is created or replaced
Write(fs, path, data) ==
    [q \in DOMAIN fs \cup {path} |-> IF q = path THEN data ELSE fs[q]]

\* the value a field takes when the dict has no such key
FieldDefault(f, role) ==
    CASE f = "role" -> role
      [] f = "tool_call" -> NoToolCall
      [] OTHER -> NoneText

\* Class.model_validate(message_dict) for the message class of a role: the
\* keys that are fields of the class are taken, the others are ignored
model_validate(role, message_dict) ==
    [f \in AllFields |->
        IF f \in Fields(role) \cap DOMAIN message_dict
        THEN message_dict[f]
        ELSE FieldDefault(f, role)]

\* the fields a message class requires
Required(role) ==
    IF role = "tool" THEN {"content", "name", "tool_call"} ELSE {"content"}

\* load_messages_from_dicts that reads a Tool message as a User message
load_messages_from_dicts_ToolAsUser(dicts) ==
    [error |-> NoException,
     messages |-> [i \in 1..Len(dicts) |->
                     model_validate(IF dicts[i].role = "tool" THEN "user"
                                    ELSE dicts[i].role, dicts[i])]]

\* load_messages_from_dicts: the message class is chosen by the role
load_messages_from_dicts(dicts) ==
    IF \E i \in 1..Len(dicts) :
          dicts[i].role \notin {"system", "assistant", "user", "tool"}
    THEN [error |-> ValueError, messages |-> <<>>]
    ELSE IF \E i \in 1..Len(dicts) :
               ~(Required(dicts[i].role) \subseteq DOMAIN dicts[i])
         THEN [error |-> ValidationError, messages |-> <<>>]
         ELSE [error |-> NoException,
               messages |-> [i \in 1..Len(dicts) |->
                               model_validate(dicts[i].role, dicts[i])]]

\* Agent.from_json_string, lines 195-200, on the document data
from_json_string(data) ==
    LET config_data == data.config
        state_data == data.state
        msgs == load_messages_from_dicts(state_data.messages)
    IN  IF msgs.error # NoException
        THEN [error |-> msgs.error, agent |-> NoAgent]
        ELSE [error |-> NoException,
              agent |-> Agent([tools |-> config_data.tools,
                               max_iterations |-> config_data.max_iterations,
                               auto_save |-> config_data.auto_save,
                               user_data_dir |-> config_data.user_data_dir,
                               inference_adapter |-> StrValue(config_data.inference_adapter),
                               parser |-> StrValue(config_data.parser),
                               session_id |-> state_data.session_id,
                               created_at |-> state_data.created_at,
                               updated_at |-> state_data.updated_at,
                               messages |-> msgs.messages])]

\* Agent.from_json_file, lines 205-206
from_json_file(fs, path) ==
    IF path \in DOMAIN fs
    THEN from_json_string(fs[path])
    ELSE [error |-> FileNotFoundError, agent |-> NoAgent]

----------------------------------------------------------------------------
(* Agent.invoke *)

\* no run is being iterated
Idle == pc \in {"idle", "done", "raised", "abandoned"}

\* lines 159-160: the content of the final Assistant message
FinalContent(content) ==
    IF StartsWith(content, Marker)
    THEN LStrip(RemoveFirst(content, Marker))
    ELSE content

\* EnterRound with the budget test off by one
EnterRound_OffByOne(s, i, n, now) ==
    IF i = n
    THEN [state |-> add_message(s, UserMessage(MaxIterationsText), now),
          enabled |-> FALSE]
    ELSE [state |-> s, enabled |-> TRUE]

\* EnterRound that warns the model but leaves tool-call detection on
EnterRound_StillEnabled(s, i, n, now) ==
    IF i = n - 1
    THEN [state |-> add_message(s, UserMessage(MaxIterationsText), now),
          enabled |-> TRUE]
    ELSE [state |-> s, enabled |-> TRUE]

\* EnterRound that gives the maximum-iterations instruction the system role
EnterRound_SystemWarning(s, i, n, now) ==
    IF i = n - 1
    THEN [state |-> add_message(s, SystemMessage(MaxIterationsText), now),
          enabled |-> FALSE]
    ELSE [state |-> s, enabled |-> TRUE]

\* EnterRound that treats every iteration from the last one on as the last
EnterRound_FromLast(s, i, n, now) ==
    IF i >= n - 1
    THEN [state |-> add_message(s, UserMessage(MaxIterationsText), now),
          enabled |-> FALSE]
    ELSE [state |-> s, enabled |-> TRUE]

\* lines 121-129: entering a round at iteration i with budget n
EnterRound(s, i, n, now) ==
    IF i = n - 1
    THEN [state |-> add_message(s, UserMessage(MaxIterationsText), now),
          enabled |-> FALSE]
    ELSE [state |-> s, enabled |-> TRUE]

\* RecordToolCall that records the call and forgets its result
RecordToolCall_AssistantOnly(s, content, reasoning, call, now) ==
    add_message(s, AssistantMessage(content, Strip(reasoning), call), now)

\* RecordToolCall whose Tool message carries the call text instead of the result
RecordToolCall_CallAsContent(s, content, reasoning, call, now) ==
    add_message(
        add_message(s, AssistantMessage(content, Strip(reasoning), call), now),
        ToolMessage(call.call, call.name, call), now)

\* lines 147-156: the Assistant message with the call, then the Tool message
RecordToolCall(s, content, reasoning, call, now) ==
    add_message(
        add_message(s, AssistantMessage(content, Strip(reasoning), call), now),
        ToolMessage(call.result, call.name, call), now)

\* DetectionEnabled that knows the marker only when it is the whole content
DetectionEnabled_ExactMarker(enabled, content) == enabled /\ content # Marker

\* lines 138-141: is a call detected after this chunk
DetectionEnabled(enabled, content) == enabled /\ ~StartsWith(content, Marker)

Detect(enabled, content, tool_names) ==
    IF DetectionEnabled(enabled, content) THEN parse(content, tool_names) ELSE NoMatch

\* an item of the sequence invoke returns, yielded in the given round: a chunk
\* (text, kind) of line 137 or a ToolCall with the kind "tool" of line 146
ChunkItem(round, c) ==
    [round |-> round, kind |-> c.kind, text |-> c.text, tool_call |-> NoToolCall]

ToolItem(round, call) ==
    [round |-> round, kind |-> "tool", text |-> NoneText, tool_call |-> call]

\* Yield that passes on the content and the tool items only
Yield_ContentOnly(items, item) ==
    IF item.kind = "reasoning" THEN items ELSE Append(items, item)

\* lines 137 and 146: the consumer receives one more item
Yield(items, item) == Append(items, item)

\* FetchChunk that accumulates every chunk as content, whatever its kind
FetchChunk_OneAccumulator(s, content, reasoning, rcv) ==
    \E c \in Chunks :
        /\ events < MaxEvents
        /\ events' = events + 1
        /\ state' = s
        /\ accumulated_content' = content \o c.text
        /\ accumulated_reasoning' = reasoning
        /\ received' = Append(rcv, c)
        /\ yielded' = Yield(yielded, ChunkItem(rounds', c))
        /\ store' = store
        /\ pc' = "chunk"

\* lines 132-137: the chunk c is added to the accumulator of its kind and
\* passed on to the consumer; the generator is suspended at the yield
Receive(s, content, reasoning, rcv, c) ==
    /\ state' = s
    /\ accumulated_content' =
          IF c.kind = "content" THEN content \o c.text ELSE content
    /\ accumulated_reasoning' =
          IF c.kind = "reasoning" THEN reasoning \o c.text ELSE reasoning
    /\ received' = Append(rcv, c)
    /\ yielded' = Yield(yielded, ChunkItem(rounds', c))
    /\ store' = store
    /\ pc' = "chunk"

\* line 131 onwards: the loop asks complete_chat for the next chunk, with the
\* state s and the accumulators as they stand
\* the provider yields a chunk: lines 132-137, suspended at the yield
FetchChunk(s, content, reasoning, rcv) ==
    \E c \in Chunks :
        /\ events < MaxEvents
        /\ events' = events + 1
        /\ Receive(s, content, reasoning, rcv, c)

\* FetchEnd that returns without recording the final answer
FetchEnd_NoFinalMessage(s, content, reasoning, rcv) ==
    /\ state' = s
    /\ accumulated_content' = FinalContent(content)
    /\ accumulated_reasoning' = reasoning
    /\ received' = rcv
    /\ yielded' = yielded
    /\ store' = IF config.auto_save THEN Append(store, Snapshot(config, s)) ELSE store
    /\ events' = events
    /\ pc' = "done"

\* FetchEnd that saves before it appends the final message
FetchEnd_SaveFirst(s, content, reasoning, rcv) ==
    LET s2 == add_message(s, AssistantMessage(FinalContent(content), reasoning, NoToolCall), clock)
    IN  /\ state' = s2
        /\ accumulated_content' = FinalContent(content)
        /\ accumulated_reasoning' = reasoning
        /\ received' = rcv
        /\ yielded' = yielded
        /\ store' = IF config.auto_save THEN Append(store, Snapshot(config, s)) ELSE store
        /\ events' = events
        /\ pc' = "done"

\* the stream is exhausted: lines 159-163, the generator returns
FetchEnd(s, content, reasoning, rcv) ==
    LET s2 == add_message(s, AssistantMessage(FinalContent(content), reasoning, NoToolCall), clock)
    IN  /\ state' = s2
        /\ accumulated_content' = FinalContent(content)
        /\ accumulated_reasoning' = reasoning
        /\ received' = rcv
        /\ yielded' = yielded
        /\ store' = IF config.auto_save THEN Append(store, Snapshot(config, s2)) ELSE store
        /\ events' = events
        /\ pc' = "done"

\* FetchRaise that records and saves what the round had accumulated
FetchRaise_KeepsPartial(s, content, reasoning, rcv) ==
    LET s2 == add_message(s, AssistantMessage(content, reasoning, NoToolCall), clock)
    IN  /\ state' = s2
        /\ accumulated_content' = content
        /\ accumulated_reasoning' = reasoning
        /\ received' = rcv
        /\ yielded' = yielded
        /\ store' = IF config.auto_save THEN Append(store, Snapshot(config, s2)) ELSE store
        /\ events' = events
        /\ pc' = "raised"

\* complete_chat raises (its retries are used up): the exception leaves invoke
FetchRaise(s, content, reasoning, rcv) ==
    /\ state' = s
    /\ accumulated_content' = content
    /\ accumulated_reasoning' = reasoning
    /\ received' = rcv
    /\ yielded' = yielded
    /\ store' = store
    /\ events' = events
    /\ pc' = "raised"

Fetch(s, content, reasoning, rcv) ==
    \/ FetchChunk(s, content, reasoning, rcv)
    \/ FetchEnd(s, content, reasoning, rcv)
    \/ FetchRaise(s, content, reasoning, rcv)

\* Enter that counts the round being entered as an iteration already made
Enter_CountsEntered(s, i, n) ==
    LET e == EnterRound(s, i, n, clock)
    IN  /\ iteration' = i + 1
        /\ max_iterations' = n
        /\ tool_call_enabled' = e.enabled
        /\ warned' = (e.state # s)
        /\ sent' = e.state.messages
        /\ rounds' = rounds + 1
        /\ round_execs' = 0
        /\ round_items' = 0
        /\ tool_call_obj' = NoToolCall
        /\ tool_exc' = NoException

\* lines 115-131: invoke(i, n) is entered on top of state s, up to the call of
\* complete_chat with the messages as they then stand
Enter(s, i, n) ==
    LET e == EnterRound(s, i, n, clock)
    IN  /\ iteration' = i
        /\ max_iterations' = n
        /\ tool_call_enabled' = e.enabled
        /\ warned' = (e.state # s)
        /\ sent' = e.state.messages
        /\ rounds' = rounds + 1
        /\ round_execs' = 0
        /\ round_items' = 0
        /\ tool_call_obj' = NoToolCall
        /\ tool_exc' = NoException

\* a round is entered at iteration i on top of state s: lines 117-131
Round(s, i, n) ==
    /\ Enter(s, i, n)
    /\ Fetch(EnterRound(s, i, n, clock).state, <<>>, <<>>, <<>>)

\* Instruct that appends the instruction when instruct() is called
Instruct_Eager ==
    /\ Idle
    /\ events < MaxEvents
    /\ \E text \in Instructions :
          /\ instruction' = text
          /\ state' = add_message(state, UserMessage(text), clock)
    /\ entry' = "instruct"
    /\ pc' = "created"
    /\ events' = events + 1
    /\ run_start' = Len(state.messages)
    /\ rounds' = 0
    /\ execs' = 0
    /\ yielded' = <<>>
    /\ UNCHANGED <<tool_exc, config, tools, clock, iteration, max_iterations,
                   accumulated_content, accumulated_reasoning, tool_call_enabled,
                   tool_call_obj, next_id, store, sent, received, warned,
                   round_execs, round_items, parsevars, storevars, execvars, chatvars>>

\* instruct(text) is called: a generator is created, nothing runs yet
Instruct ==
    /\ Idle
    /\ events < MaxEvents
    /\ \E text \in Instructions : instruction' = text
    /\ entry' = "instruct"
    /\ pc' = "created"
    /\ events' = events + 1
    /\ run_start' = Len(state.messages)
    /\ rounds' = 0
    /\ execs' = 0
    /\ yielded' = <<>>
    /\ UNCHANGED <<tool_exc, config, tools, state, clock, iteration, max_iterations,
                   accumulated_content, accumulated_reasoning, tool_call_enabled,
                   tool_call_obj, next_id, store, sent, received, warned,
                   round_execs, round_items, parsevars, storevars, execvars, chatvars>>

\* invoke() is called directly, with its defaults: iteration 0, the budget of the config
Invoke ==
    /\ Idle
    /\ events < MaxEvents
    /\ instruction' = NoneText
    /\ entry' = "invoke"
    /\ pc' = "created"
    /\ events' = events + 1
    /\ run_start' = Len(state.messages)
    /\ rounds' = 0
    /\ execs' = 0
    /\ yielded' = <<>>
    /\ UNCHANGED <<tool_exc, config, tools, state, clock, iteration, max_iterations,
                   accumulated_content, accumulated_reasoning, tool_call_enabled,
                   tool_call_obj, next_id, store, sent, received, warned,
                   round_execs, round_items, parsevars, storevars, execvars, chatvars>>

\* the consumer advances a new generator: line 166 for instruct, then invoke
\* from line 117 to its first yield, return or exception
Start ==
    /\ pc = "created"
    /\ LET s0 == IF entry = "instruct"
                 THEN add_message(state, UserMessage(instruction), clock)
                 ELSE state
       IN  Round(s0, 0, config.max_iterations)
    /\ UNCHANGED <<config, tools, clock, entry, instruction, next_id, run_start,
                   execs, parsevars, storevars, execvars, chatvars>>

\* the consumer advances past a chunk and a call is detected: lines 138-146,
\* the tool is executed and its result is text; suspended at the yield of the
\* tool item
ResumeDetect ==
    /\ pc = "chunk"
    /\ LET call == Detect(tool_call_enabled, accumulated_content, tools)
       IN  /\ call # NoMatch
           /\ \E k \in 1..Len(tools) : tools[k] = call.name
           /\ \E func \in ToolFuncs :
                 LET out == execute_tool_call(call.call, Tool(call.name, func))
                 IN  /\ out.kind = "return"
                     /\ tool_call_obj' = ToolCall(call.name, call.call, next_id + 1,
                                                  str(out.value).text)
                     /\ tool_exc' = eval(call.call, Tool(call.name, func)).exc
    /\ tool_call_enabled' = DetectionEnabled(tool_call_enabled, accumulated_content)
    /\ next_id' = next_id + 1
    /\ execs' = execs + 1
    /\ round_execs' = round_execs + 1
    /\ round_items' = round_items + 1
    /\ yielded' = Yield(yielded, ToolItem(rounds, tool_call_obj'))
    /\ pc' = "tool"
    /\ UNCHANGED <<config, tools, state, clock, entry, instruction, iteration,
                   max_iterations, accumulated_content, accumulated_reasoning,
                   store, sent, received, warned, run_start, rounds, events,
                   parsevars, storevars, execvars, chatvars>>

\* the consumer advances past a chunk, a call is detected and its execution
\* raises an exception that execute_tool_call does not catch: it leaves invoke
\* at line 144
ResumeExit ==
    /\ pc = "chunk"
    /\ LET call == Detect(tool_call_enabled, accumulated_content, tools)
       IN  /\ call # NoMatch
           /\ \E k \in 1..Len(tools) : tools[k] = call.name
           /\ \E func \in ToolFuncs :
                 LET out == execute_tool_call(call.call, Tool(call.name, func))
                 IN  /\ out.kind = "raise"
                     /\ tool_exc' = out.exc
    /\ tool_call_enabled' = DetectionEnabled(tool_call_enabled, accumulated_content)
    /\ execs' = execs + 1
    /\ round_execs' = round_execs + 1
    /\ pc' = "raised"
    /\ UNCHANGED <<yielded, config, tools, state, clock, entry, instruction, iteration,
                   max_iterations, accumulated_content, accumulated_reasoning,
                   tool_call_obj, next_id, store, sent, received, warned,
                   run_start, rounds, round_items, events, parsevars, storevars, execvars,
                   chatvars>>

\* the consumer advances past a chunk and parse names a tool that is not in the
\* registry: self.tools[tool_name] of line 144 raises KeyError
ResumeKeyError ==
    /\ pc = "chunk"
    /\ LET call == Detect(tool_call_enabled, accumulated_content, tools)
       IN  /\ call # NoMatch
           /\ ~ \E k \in 1..Len(tools) : tools[k] = call.name
    /\ tool_call_enabled' = DetectionEnabled(tool_call_enabled, accumulated_content)
    /\ pc' = "raised"
    /\ UNCHANGED <<yielded, tool_exc, config, tools, state, clock, entry, instruction, iteration,
                   max_iterations, accumulated_content, accumulated_reasoning,
                   tool_call_obj, next_id, store, sent, received, warned,
                   run_start, rounds, execs, round_execs, round_items, events,
                   parsevars, storevars, execvars, chatvars>>

\* the consumer advances past a chunk and no call is detected: the loop goes on
ResumeFetch ==
    /\ pc = "chunk"
    /\ Detect(tool_call_enabled, accumulated_content, tools) = NoMatch
    /\ tool_call_enabled' = DetectionEnabled(tool_call_enabled, accumulated_content)
    /\ UNCHANGED <<tool_exc, config, tools, clock, entry, instruction, iteration,
                   max_iterations, tool_call_obj, next_id, sent, warned,
                   run_start, rounds, execs, round_execs, round_items,
                   parsevars, storevars, execvars, chatvars>>
    /\ Fetch(state, accumulated_content, accumulated_reasoning, received)

\* ResumeTool that records the pair and goes on draining the same stream
ResumeTool_SameRound ==
    /\ pc = "tool"
    /\ UNCHANGED <<tool_exc, config, tools, clock, entry, instruction, iteration,
                   max_iterations, tool_call_enabled, tool_call_obj, next_id,
                   sent, warned, run_start, rounds, execs, round_execs,
                   round_items, parsevars, storevars, execvars, chatvars>>
    /\ Fetch(RecordToolCall(state, accumulated_content, accumulated_reasoning,
                            tool_call_obj, clock),
             accumulated_content, accumulated_reasoning, received)

\* the consumer advances past the tool item: lines 147-157, the pair is
\* recorded and the next round is entered
ResumeTool ==
    /\ pc = "tool"
    /\ Round(RecordToolCall(state, accumulated_content, accumulated_reasoning,
                            tool_call_obj, clock),
             iteration + 1, max_iterations)
    /\ UNCHANGED <<config, tools, clock, entry, instruction, next_id, run_start,
                   execs, parsevars, storevars, execvars, chatvars>>

\* Abandon that records a pending tool call when the generator is closed
Abandon_Records ==
    /\ pc \in {"created", "chunk", "tool"}
    /\ pc' = "abandoned"
    /\ state' = IF pc = "tool"
                THEN RecordToolCall(state, accumulated_content,
                                    accumulated_reasoning, tool_call_obj, clock)
                ELSE state
    /\ UNCHANGED <<yielded, tool_exc, config, tools, clock, entry, instruction,
                   iteration, max_iterations, accumulated_content,
                   accumulated_reasoning, tool_call_enabled, tool_call_obj,
                   next_id, store, sent, received, warned, run_start, rounds,
                   execs, round_execs, round_items, events, parsevars, storevars,
                   execvars, chatvars>>

\* the consumer stops iterating at a yield (or never starts)
Abandon ==
    /\ pc \in {"created", "chunk", "tool"}
    /\ pc' = "abandoned"
    /\ UNCHANGED <<yielded, tool_exc, config, tools, state, clock, entry, instruction, iteration,
                   max_iterations, accumulated_content, accumulated_reasoning,
                   tool_call_enabled, tool_call_obj, next_id, store, sent,
                   received, warned, run_start, rounds, execs, round_execs,
                   round_items, events, parsevars, storevars, execvars, chatvars>>

\* time passes
Tick ==
    /\ events < MaxEvents
    /\ events' = events + 1
    /\ clock' = clock + 1
    /\ UNCHANGED <<yielded, tool_exc, config, tools, state, pc, entry, instruction, iteration,
                   max_iterations, accumulated_content, accumulated_reasoning,
                   tool_call_enabled, tool_call_obj, next_id, store, sent,
                   received, warned, run_start, rounds, execs, round_execs,
                   round_items, parsevars, storevars, execvars, chatvars>>

\* nothing is being executed on its own
ExecAtRest ==
    /\ xcall = <<>>
    /\ xtool = Tool(NameT, "five")
    /\ xout = Return(NoneValue)
    /\ xresult = NoneText

\* no complete_chat invocation is exercised on its own
ChatAtRest ==
    /\ cpc = "idle"
    /\ max_retries = 0
    /\ retry = 0
    /\ delivered = <<>>
    /\ attempts = 0
    /\ failures = 0
    /\ sleeps = <<>>
    /\ attempt_chunks = <<>>
    /\ attempt_start = 0
    /\ chat_log = <<>>
    /\ chat_events = 0
    /\ messages = <<>>
    /\ called_with = <<>>
    /\ requests = <<>>

\* nothing has been loaded
NoLoad == [op |-> "none", path |-> <<>>, session_id |-> "", user_data_dir |-> <<>>,
           write |-> 0, at |-> 0, error |-> NoException, agent |-> NoAgent]

\* Agent.__init__ lines 46-63: the default values of its parameters
ClassDefaults ==
    [tools |-> <<>>,
     max_iterations |-> DefaultMaxIterations,
     auto_save |-> TRUE,
     user_data_dir |-> DataDir,
     inference_adapter |-> Class("LiteLLMInferenceAdapter"),
     parser |-> Class("AtSyntaxParser"),
     session_id |-> DefTimeUuid,
     created_at |-> 0,
     updated_at |-> 0,
     messages |-> <<>>]

\* the class body has been executed (the defaults of __init__'s parameters are
\* evaluated, lines 46-63), no agent is constructed yet, no file is written
StoreAtRest ==
    /\ defaults = ClassDefaults
    /\ agents = <<>>
    /\ ctor = <<>>
    /\ files = [q \in {} |-> NoAgent]
    /\ writes = <<>>
    /\ loaded = NoLoad
    /\ ops = 0

\* Agent.__init__ of a fresh agent: the system message alone
Init ==
    /\ config \in [max_iterations : Budgets, auto_save : BOOLEAN]
    /\ tools \in Registries
    /\ state = [session_id |-> "s1", created_at |-> 0, updated_at |-> 0,
                messages |-> <<SystemMessage(SystemPrompt)>>]
    /\ clock = 0
    /\ pc = "idle"
    /\ entry = "none"
    /\ instruction = NoneText
    /\ iteration = 0
    /\ max_iterations = 0
    /\ accumulated_content = <<>>
    /\ accumulated_reasoning = <<>>
    /\ tool_call_enabled = TRUE
    /\ tool_call_obj = NoToolCall
    /\ next_id = 0
    /\ store = <<>>
    /\ sent = <<>>
    /\ received = <<>>
    /\ warned = FALSE
    /\ run_start = 1
    /\ rounds = 0
    /\ execs = 0
    /\ round_execs = 0
    /\ round_items = 0
    /\ events = 0
    /\ tool_exc = NoException
    /\ yielded = <<>>
    /\ ExecAtRest
    /\ ChatAtRest
    /\ StoreAtRest
    /\ ptext = <<>>
    /\ pnames = <<>>
    /\ presult = NoMatch

Next ==
    \/ Instruct
    \/ Invoke
    \/ Start
    \/ ResumeDetect
    \/ ResumeExit
    \/ ResumeKeyError
    \/ ResumeFetch
    \/ ResumeTool
    \/ Abandon
    \/ Tick

Spec == Init /\ [][Next]_vars

----------------------------------------------------------------------------
(* AtSyntaxParser.parse exercised on its own, on every text up to MaxLen *)

ParseAlphabet == {"@", "t", "(", ")"}

ParseTexts == UNION {[1..n -> ParseAlphabet] : n \in 0..MaxLen}

\* one call of parse
ParseStep ==
    /\ pc = "parse"
    /\ presult' = parse(ptext, pnames)
    /\ pc' = "parsed"
    /\ UNCHANGED <<storevars, yielded, config, tools, state, clock, entry, instruction, iteration,
                   max_iterations, accumulated_content, accumulated_reasoning,
                   tool_call_enabled, tool_call_obj, next_id, store, sent,
                   received, warned, run_start, rounds, execs, round_execs,
                   round_items, events, tool_exc, ptext, pnames, execvars,
                   chatvars>>

InitParse ==
    /\ ptext \in ParseTexts
    /\ pnames \in Registries
    /\ presult = NoMatch
    /\ pc = "parse"
    /\ config = [max_iterations |-> 0, auto_save |-> FALSE]
    /\ tools = pnames
    /\ state = [session_id |-> "s1", created_at |-> 0, updated_at |-> 0,
                messages |-> <<SystemMessage(SystemPrompt)>>]
    /\ clock = 0
    /\ entry = "none"
    /\ instruction = NoneText
    /\ iteration = 0
    /\ max_iterations = 0
    /\ accumulated_content = <<>>
    /\ accumulated_reasoning = <<>>
    /\ tool_call_enabled = TRUE
    /\ tool_call_obj = NoToolCall
    /\ next_id = 0
    /\ store = <<>>
    /\ sent = <<>>
    /\ received = <<>>
    /\ warned = FALSE
    /\ run_start = 1
    /\ rounds = 0
    /\ execs = 0
    /\ round_execs = 0
    /\ round_items = 0
    /\ events = 0
    /\ tool_exc = NoException
    /\ yielded = <<>>
    /\ ExecAtRest
    /\ ChatAtRest
    /\ StoreAtRest

NextParse == ParseStep

SpecParse == InitParse /\ [][NextParse]_vars

----------------------------------------------------------------------------
(* AtSyntaxParser.parse exercised on texts put together from pieces of     *)
(* calls: call heads of two tools, parentheses and a quote character       *)

NameU == <<"u">>

\* registries of one and of two tools, the two in either order
CallRegistries == {<<NameT>>, <<NameT, NameU>>, <<NameU, NameT>>}

Pieces == {<<"@", "t", "(">>, <<"@", "u", "(">>, <<"(">>, <<")">>, <<Quote>>}

\* the texts made of at most n pieces
RECURSIVE PieceTexts(_)
PieceTexts(n) ==
    IF n = 0 THEN {<<>>}
    ELSE LET shorter == PieceTexts(n - 1)
         IN  shorter \cup {t \o p : t \in shorter, p \in Pieces}

InitCalls ==
    /\ ptext \in PieceTexts(MaxPieces)
    /\ pnames \in CallRegistries
    /\ presult = NoMatch
    /\ pc = "parse"
    /\ config = [max_iterations |-> 0, auto_save |-> FALSE]
    /\ tools = pnames
    /\ state = [session_id |-> "s1", created_at |-> 0, updated_at |-> 0,
                messages |-> <<SystemMessage(SystemPrompt)>>]
    /\ clock = 0
    /\ entry = "none"
    /\ instruction = NoneText
    /\ iteration = 0
    /\ max_iterations = 0
    /\ accumulated_content = <<>>
    /\ accumulated_reasoning = <<>>
    /\ tool_call_enabled = TRUE
    /\ tool_call_obj = NoToolCall
    /\ next_id = 0
    /\ store = <<>>
    /\ sent = <<>>
    /\ received = <<>>
    /\ warned = FALSE
    /\ run_start = 1
    /\ rounds = 0
    /\ execs = 0
    /\ round_execs = 0
    /\ round_items = 0
    /\ events = 0
    /\ tool_exc = NoException
    /\ yielded = <<>>
    /\ ExecAtRest
    /\ ChatAtRest
    /\ StoreAtRest

SpecCalls == InitCalls /\ [][NextParse]_vars

----------------------------------------------------------------------------
(* execute_tool_call exercised on its own, and the str() of Agent.py line   *)
(* 144 on what it returns: on every call expression nested up to MaxDepth,  *)
(* and on every text such an expression begins with                         *)

\* the agent is at rest: nothing of the loop and of the parser moves
LoopAtRest ==
    /\ config = [max_iterations |-> 0, auto_save |-> FALSE]
    /\ tools = <<NameT>>
    /\ state = [session_id |-> "s1", created_at |-> 0, updated_at |-> 0,
                messages |-> <<SystemMessage(SystemPrompt)>>]
    /\ clock = 0
    /\ entry = "none"
    /\ instruction = NoneText
    /\ iteration = 0
    /\ max_iterations = 0
    /\ accumulated_content = <<>>
    /\ accumulated_reasoning = <<>>
    /\ tool_call_enabled = TRUE
    /\ tool_call_obj = NoToolCall
    /\ next_id = 0
    /\ store = <<>>
    /\ sent = <<>>
    /\ received = <<>>
    /\ warned = FALSE
    /\ run_start = 1
    /\ rounds = 0
    /\ execs = 0
    /\ round_execs = 0
    /\ round_items = 0
    /\ events = 0
    /\ tool_exc = NoException
    /\ yielded = <<>>
    /\ ptext = <<>>
    /\ pnames = <<>>
    /\ presult = NoMatch

\* the names an expression refers to: the tool, an unbound name, builtins
ExprNames == {<<"t">>, <<"u">>, <<"len">>, <<"__import__">>, <<"exit">>}

ExprLiterals == {<<"5">>, <<Quote, "a", "b", Quote>>, <<Quote, "o", "s", Quote>>}

\* the expressions with calls nested at most d deep
RECURSIVE Exprs(_)
Exprs(d) ==
    IF d = 0 THEN ExprNames \cup ExprLiterals
    ELSE LET inner == Exprs(d - 1)
         IN  inner
               \cup {n \o <<"(", ")">> : n \in ExprNames}
               \cup {n \o <<"(">> \o e \o <<")">> : n \in ExprNames, e \in inner}

\* the expressions and every text one of them begins with
ExprTexts == UNION {{SubSeq(e, 1, n) : n \in 0..Len(e)} : e \in Exprs(MaxDepth)}

\* one call of execute_tool_call, and line 144's str() of what it returns
ExecStep ==
    /\ pc = "execute"
    /\ xout' = execute_tool_call(xcall, xtool)
    /\ xresult' = IF xout'.kind = "return" THEN str(xout'.value).text ELSE NoneText
    /\ pc' = "executed"
    /\ UNCHANGED <<yielded, config, tools, state, clock, entry, instruction, iteration,
                   max_iterations, accumulated_content, accumulated_reasoning,
                   tool_call_enabled, tool_call_obj, next_id, store, sent,
                   received, warned, run_start, rounds, execs, round_execs,
                   round_items, events, tool_exc, parsevars, storevars, xcall, xtool,
                   chatvars>>

InitExec ==
    /\ xcall \in ExprTexts
    /\ xtool \in {Tool(NameT, func) : func \in ToolFuncs}
    /\ xout = Return(NoneValue)
    /\ xresult = NoneText
    /\ pc = "execute"
    /\ LoopAtRest
    /\ ChatAtRest
    /\ StoreAtRest

NextExec == ExecStep

SpecExec == InitExec /\ [][NextExec]_vars

----------------------------------------------------------------------------
(* LiteLLMInferenceAdapter.complete_chat exercised on its own.  It is a     *)
(* generator that calls itself to retry; the actions are its steps: the     *)
(* provider call, a chunk of the response passed on, the end of the         *)
(* response, an exception, and the except clause.                           *)

\* the default of the parameter max_retries
DefaultMaxRetries == 5

\* the values of max_retries complete_chat is called with
RetryBudgets == {0, 1, DefaultMaxRetries}

\* the message lists complete_chat is called with: what Agent.invoke passes
\* at line 131 in the first round of a run, after a tool round and after a
\* finished run, and the empty list
Conversations ==
    LET call == ToolCall(NameT, <<"t", "(", ")">>, 1, <<"5">>)
        first == <<SystemMessage(SystemPrompt), UserMessage(<<"Hi">>)>>
        second == first \o <<AssistantMessage(Call, <<"r">>, call),
                             ToolMessage(call.result, call.name, call)>>
        third == first \o <<AssistantMessage(Plain, <<>>, NoToolCall),
                            UserMessage(<<"Hi">>)>>
    IN  {<<>>, first, second, third}

\* _formatMessages that sends a Tool message under its own role
_formatMessages_KeepToolRole(msgs) ==
    [i \in 1..Len(msgs) |->
        IF msgs[i].role # "system"
        THEN model_dump(msgs[i], {"role", "content", "name"})
        ELSE model_dump(msgs[i], AllFields)]

\* lines 51-65: the messages in the provider's format
_formatMessages(msgs) ==
    [i \in 1..Len(msgs) |->
        IF msgs[i].role # "system"
        THEN LET msg == model_dump(msgs[i], {"role", "content", "name"})
             IN  IF msgs[i].role = "tool"
                 THEN [msg EXCEPT !.role = "user"]
                 ELSE msg
        ELSE model_dump(msgs[i], AllFields)]

\* lines 26-32: one provider call, built from the list as it stands
Request(msgs) == [messages |-> msgs, formatted_messages |-> _formatMessages(msgs)]

\* chunk.choices[0].delta: the two fields complete_chat reads, either of
\* which may be missing (None) or empty
Deltas ==
    {[reasoning_content |-> r, content |-> c] :
        r \in {NoneText, <<"r">>},
        c \in {NoneText, <<>>, <<"c">>, Call, NoNameCall}}

\* bool(text) of an optional text
Truthy(text) == text # NoneText /\ text # <<>>

\* lines 35-41: what is yielded for one chunk of the response
Items(delta) ==
    (IF Truthy(delta.reasoning_content)
     THEN <<[text |-> delta.reasoning_content, kind |-> "reasoning"]>>
     ELSE <<>>)
    \o (IF Truthy(delta.content)
        THEN <<[text |-> delta.content, kind |-> "content"]>>
        ELSE <<>>)

\* Backoff that grows by one unit per retry
Backoff_Linear(n) == n + 1

\* line 45: the duration slept before retry number n + 1
Backoff(n) == 2 ^ n

\* MayRetry that allows one retry more
MayRetry_Inclusive(n, limit) == n <= limit

\* line 43: is another attempt made after n retries
MayRetry(n, limit) == n < limit

\* line 25: a new invocation complete_chat(msgs, limit), about to make its
\* first provider call; retry has its default, 0
complete_chat(msgs, limit) ==
    /\ max_retries' = limit
    /\ retry' = 0
    /\ delivered' = <<>>
    /\ attempts' = 0
    /\ failures' = 0
    /\ sleeps' = <<>>
    /\ attempt_chunks' = <<>>
    /\ attempt_start' = 0
    /\ chat_log' = <<>>
    /\ messages' = msgs
    /\ called_with' = msgs
    /\ requests' = <<>>
    /\ cpc' = "request"

\* complete_chat(messages, max_retries) is called and its generator advanced:
\* retry has its default, 0
CompleteChat ==
    /\ cpc \in {"idle", "returned", "raised"}
    /\ chat_events < MaxEvents
    /\ chat_events' = chat_events + 1
    /\ \E msgs \in Conversations, limit \in RetryBudgets : complete_chat(msgs, limit)
    /\ UNCHANGED <<loopvars, parsevars, storevars, execvars>>

\* lines 26-32: the provider call returns a response to iterate
RequestStream ==
    /\ cpc = "request"
    /\ attempts' = attempts + 1
    /\ chat_log' = Append(chat_log, [op |-> "call", arg |-> retry])
    /\ attempt_chunks' = <<>>
    /\ attempt_start' = Len(delivered)
    /\ requests' = Append(requests, Request(messages))
    /\ cpc' = "stream"
    /\ UNCHANGED <<loopvars, parsevars, storevars, execvars, messages, called_with,
                   max_retries, retry, delivered,
                   failures, sleeps, chat_events>>

\* lines 26-32: the provider call raises
RequestRaise ==
    /\ cpc = "request"
    /\ attempts' = attempts + 1
    /\ failures' = failures + 1
    /\ chat_log' = Append(chat_log, [op |-> "call", arg |-> retry])
    /\ attempt_chunks' = <<>>
    /\ attempt_start' = Len(delivered)
    /\ requests' = Append(requests, Request(messages))
    /\ cpc' = "except"
    /\ UNCHANGED <<loopvars, parsevars, storevars, execvars, messages, called_with,
                   max_retries, retry, delivered,
                   sleeps, chat_events>>

\* lines 34-41: the response yields a chunk, one of D, and its items are
\* passed on
StreamChunkOf(D) ==
    /\ cpc = "stream"
    /\ chat_events < MaxEvents
    /\ chat_events' = chat_events + 1
    /\ \E delta \in D :
          /\ attempt_chunks' = Append(attempt_chunks, delta)
          /\ delivered' = delivered \o Items(delta)
    /\ UNCHANGED <<loopvars, parsevars, storevars, execvars, messages, called_with,
                   requests, cpc, max_retries, retry,
                   attempts, failures, sleeps, attempt_start, chat_log>>

StreamChunk == StreamChunkOf(Deltas)

\* line 34: the response is exhausted, the generator returns
StreamEnd ==
    /\ cpc = "stream"
    /\ cpc' = "returned"
    /\ UNCHANGED <<loopvars, parsevars, storevars, execvars, messages, called_with,
                   requests, max_retries, retry, delivered,
                   attempts, failures, sleeps, attempt_chunks, attempt_start,
                   chat_log, chat_events>>

\* line 34: iterating the response raises
StreamRaise ==
    /\ cpc = "stream"
    /\ failures' = failures + 1
    /\ cpc' = "except"
    /\ UNCHANGED <<loopvars, parsevars, storevars, execvars, messages, called_with,
                   requests, max_retries, retry, delivered,
                   attempts, sleeps, attempt_chunks, attempt_start, chat_log,
                   chat_events>>

\* Except that tells the model about the failure before it retries
Except_AppendsNote ==
    /\ cpc = "except"
    /\ IF MayRetry(retry, max_retries)
       THEN /\ sleeps' = Append(sleeps, Backoff(retry))
            /\ chat_log' = Append(chat_log, [op |-> "sleep", arg |-> Backoff(retry)])
            /\ retry' = retry + 1
            /\ messages' = Append(messages, UserMessage(<<"retry">>))
            /\ cpc' = "request"
       ELSE /\ cpc' = "raised"
            /\ UNCHANGED <<sleeps, chat_log, retry, messages>>
    /\ UNCHANGED <<loopvars, parsevars, storevars, execvars, called_with,
                   requests, max_retries, delivered,
                   attempts, failures, attempt_chunks, attempt_start, chat_events>>

\* lines 42-48: sleep and call complete_chat again with retry + 1, or re-raise
Except ==
    /\ cpc = "except"
    /\ IF MayRetry(retry, max_retries)
       THEN /\ sleeps' = Append(sleeps, Backoff(retry))
            /\ chat_log' = Append(chat_log, [op |-> "sleep", arg |-> Backoff(retry)])
            /\ retry' = retry + 1
            /\ cpc' = "request"
       ELSE /\ cpc' = "raised"
            /\ UNCHANGED <<sleeps, chat_log, retry>>
    /\ UNCHANGED <<loopvars, parsevars, storevars, execvars, messages, called_with,
                   requests, max_retries, delivered,
                   attempts, failures, attempt_chunks, attempt_start, chat_events>>

InitChat ==
    /\ pc = "idle"
    /\ LoopAtRest
    /\ ExecAtRest
    /\ ChatAtRest
    /\ StoreAtRest

NextChat ==
    \/ CompleteChat
    \/ RequestStream
    \/ RequestRaise
    \/ StreamChunk
    \/ StreamEnd
    \/ StreamRaise
    \/ Except

SpecChat == InitChat /\ [][NextChat]_vars

----------------------------------------------------------------------------
(* The store exercised on its own: agents are constructed, appended to,     *)
(* saved and loaded.  The clock of add_message is the count of operations.  *)

\* Agent(...) is called with a data directory, with or without a session id,
\* with or without messages to restore
NewAgent ==
    /\ ops < MaxOps
    /\ \E dir \in UserDataDirs, id_given \in BOOLEAN, sid \in SessionIds,
          msgs \in {<<>>, Restored} :
          /\ agents' = Append(agents,
                 Agent([defaults EXCEPT
                          !.user_data_dir = dir,
                          !.session_id = IF id_given THEN sid ELSE @,
                          !.messages = msgs]))
          /\ ctor' = Append(ctor, [session_id |-> id_given, messages |-> msgs # <<>>])
    /\ ops' = ops + 1
    /\ UNCHANGED <<loopvars, parsevars, execvars, chatvars, defaults, files,
                   writes, loaded>>

\* agent.state.add_message(UserMessage(...)) on one of the agents
AddMessage ==
    /\ ops < MaxOps
    /\ \E k \in 1..Len(agents) :
          agents' = [agents EXCEPT
                        ![k].state = add_message(@, UserMessage(<<"Hi">>), ops + 1)]
    /\ ops' = ops + 1
    /\ UNCHANGED <<loopvars, parsevars, execvars, chatvars, defaults, ctor,
                   files, writes, loaded>>

\* agent.store.save(agent), JsonAgentStore.save with path=None
Save ==
    /\ ops < MaxOps
    /\ \E k \in 1..Len(agents) :
          LET path == DefaultPath(agents[k])
              data == Data(agents[k])
          IN  /\ files' = Write(files, path, data)
              /\ writes' = Append(writes, [by |-> "store", agent |-> k,
                                           saved |-> agents[k],
                                           path |-> path, data |-> data])
    /\ ops' = ops + 1
    /\ UNCHANGED <<loopvars, parsevars, execvars, chatvars, defaults, agents,
                   ctor, loaded>>

\* save_agent_state(agent) with path=None
SaveAgentState ==
    /\ ops < MaxOps
    /\ \E k \in 1..Len(agents) :
          LET path == StatePath(agents[k])
              data == Data(agents[k])
          IN  /\ files' = Write(files, path, data)
              /\ writes' = Append(writes, [by |-> "save_agent_state", agent |-> k,
                                           saved |-> agents[k],
                                           path |-> path, data |-> data])
    /\ ops' = ops + 1
    /\ UNCHANGED <<loopvars, parsevars, execvars, chatvars, defaults, agents,
                   ctor, loaded>>

\* the latest write to a path, 0 if there is none
LastWrite(path) ==
    IF \E i \in 1..Len(writes) : writes[i].path = path
    THEN CHOOSE i \in 1..Len(writes) :
            /\ writes[i].path = path
            /\ \A j \in (i + 1)..Len(writes) : writes[j].path # path
    ELSE 0

\* Agent.from_session_id(session_id, user_data_dir)
FromSessionId ==
    /\ ops < MaxOps
    /\ \E sid \in SessionIds \cup {DefTimeUuid}, dir \in UserDataDirs :
          LET path == SessionPath(sid, dir)
              r == from_json_file(files, path)
          IN  loaded' = [op |-> "from_session_id", path |-> path,
                         session_id |-> sid, user_data_dir |-> dir,
                         write |-> LastWrite(path), at |-> Len(writes),
                         error |-> r.error, agent |-> r.agent]
    /\ ops' = ops + 1
    /\ UNCHANGED <<loopvars, parsevars, execvars, chatvars, defaults, agents,
                   ctor, files, writes>>

\* Agent.from_json_file(path) on a file a save has written
FromJsonFile ==
    /\ ops < MaxOps
    /\ \E path \in DOMAIN files :
          LET r == from_json_file(files, path)
          IN  loaded' = [op |-> "from_json_file", path |-> path,
                         session_id |-> "", user_data_dir |-> <<>>,
                         write |-> LastWrite(path), at |-> Len(writes),
                         error |-> r.error, agent |-> r.agent]
    /\ ops' = ops + 1
    /\ UNCHANGED <<loopvars, parsevars, execvars, chatvars, defaults, agents,
                   ctor, files, writes>>

InitStore ==
    /\ pc = "idle"
    /\ LoopAtRest
    /\ ExecAtRest
    /\ ChatAtRest
    /\ StoreAtRest

NextStore ==
    \/ NewAgent
    \/ AddMessage
    \/ Save
    \/ SaveAgentState
    \/ FromSessionId
    \/ FromJsonFile

SpecStore == InitStore /\ [][NextStore]_vars

----------------------------------------------------------------------------
(* Agent.invoke over LiteLLMInferenceAdapter.complete_chat: the loop takes   *)
(* its chunks from the retrying generator instead of from an abstract stream *)

\* lines 115-131: a round is entered and complete_chat is called with the
\* conversation as it then stands and the default retry budget; nothing is
\* requested before the loop asks for the first chunk
RoundChat(s, i, n) ==
    /\ Enter(s, i, n)
    /\ state' = EnterRound(s, i, n, clock).state
    /\ complete_chat(EnterRound(s, i, n, clock).state.messages, DefaultMaxRetries)
    /\ accumulated_content' = <<>>
    /\ accumulated_reasoning' = <<>>
    /\ received' = <<>>
    /\ pc' = "fetch"

\* the chunks the provider streams to the loop: a complete call to t, a call
\* without a name, and a chunk with reasoning and plain content
RunDeltas ==
    {[reasoning_content |-> NoneText, content |-> Call],
     [reasoning_content |-> NoneText, content |-> NoNameCall],
     [reasoning_content |-> <<"r">>, content |-> <<"c">>]}

\* instruct(text) is called
InstructRun ==
    /\ events < MaxRuns
    /\ Instruct

\* the consumer advances a new generator: line 166, then invoke up to line 131
StartChat ==
    /\ pc = "created"
    /\ LET s0 == IF entry = "instruct"
                 THEN add_message(state, UserMessage(instruction), clock)
                 ELSE state
       IN  RoundChat(s0, 0, config.max_iterations)
    /\ UNCHANGED <<config, tools, clock, entry, instruction, next_id, store,
                   run_start, execs, events, yielded, chat_events,
                   parsevars, storevars, execvars>>

\* the loop waits for the next item of complete_chat, which runs until it
\* yields, returns or raises: a provider call, a chunk of the response, a
\* failure, a sleep and a retry
Provide ==
    /\ pc = "fetch"
    /\ Len(received) = Len(delivered)
    /\ \/ RequestStream
       \/ RequestRaise
       \/ chat_events < MaxChunks /\ StreamChunkOf(RunDeltas)
       \/ StreamEnd
       \/ StreamRaise
       \/ Except

\* complete_chat has yielded an item the loop has not seen: lines 131-137
TakeChunk ==
    /\ pc = "fetch"
    /\ Len(received) < Len(delivered)
    /\ UNCHANGED <<config, tools, clock, entry, instruction, iteration,
                   max_iterations, tool_call_enabled, tool_call_obj, next_id,
                   sent, warned, run_start, rounds, execs, round_execs,
                   round_items, events, tool_exc, parsevars, storevars,
                   execvars, chatvars>>
    /\ Receive(state, accumulated_content, accumulated_reasoning, received,
               delivered[Len(received) + 1])

\* complete_chat has returned: lines 159-163
TakeEnd ==
    /\ pc = "fetch"
    /\ cpc = "returned"
    /\ Len(received) = Len(delivered)
    /\ FetchEnd(state, accumulated_content, accumulated_reasoning, received)
    /\ UNCHANGED <<config, tools, clock, entry, instruction, iteration,
                   max_iterations, tool_call_enabled, tool_call_obj, next_id,
                   sent, warned, run_start, rounds, execs, round_execs,
                   round_items, tool_exc, parsevars, storevars, execvars,
                   chatvars>>

\* complete_chat has raised: the exception leaves the for loop of line 131
\* and invoke
TakeRaise ==
    /\ pc = "fetch"
    /\ cpc = "raised"
    /\ FetchRaise(state, accumulated_content, accumulated_reasoning, received)
    /\ UNCHANGED <<config, tools, clock, entry, instruction, iteration,
                   max_iterations, tool_call_enabled, tool_call_obj, next_id,
                   sent, warned, run_start, rounds, execs, round_execs,
                   round_items, tool_exc, parsevars, storevars, execvars,
                   chatvars>>

\* the consumer advances past a chunk and no call is detected: the loop asks
\* complete_chat for the next item
ResumePull ==
    /\ pc = "chunk"
    /\ Detect(tool_call_enabled, accumulated_content, tools) = NoMatch
    /\ tool_call_enabled' = DetectionEnabled(tool_call_enabled, accumulated_content)
    /\ pc' = "fetch"
    /\ UNCHANGED <<config, tools, state, clock, entry, instruction, iteration,
                   max_iterations, accumulated_content, accumulated_reasoning,
                   tool_call_obj, next_id, store, sent, received, warned,
                   run_start, rounds, execs, round_execs, round_items, events,
                   tool_exc, yielded, parsevars, storevars, execvars, chatvars>>

\* the consumer advances past the tool item: lines 147-157, the pair is
\* recorded and invoke is entered again, with a new complete_chat invocation
ResumeToolChat ==
    /\ pc = "tool"
    /\ RoundChat(RecordToolCall(state, accumulated_content, accumulated_reasoning,
                                tool_call_obj, clock),
                 iteration + 1, max_iterations)
    /\ UNCHANGED <<config, tools, clock, entry, instruction, next_id, store,
                   run_start, execs, events, yielded, chat_events,
                   parsevars, storevars, execvars>>

NextRun ==
    \/ InstructRun
    \/ StartChat
    \/ Provide
    \/ TakeChunk
    \/ TakeEnd
    \/ TakeRaise
    \/ ResumeDetect
    \/ ResumeExit
    \/ ResumeKeyError
    \/ ResumePull
    \/ ResumeToolChat
    \/ Abandon

SpecRun == Init /\ [][NextRun]_vars

\* the consumer advances the sequence past a chunk, whatever the loop then
\* does: one of ResumePull, ResumeDetect, ResumeExit and ResumeKeyError is
\* enabled at every chunk
Consume ==
    /\ pc = "chunk"
    /\ pc' \in {"fetch", "tool", "raised"}

\* the other steps of a run whose consumer iterates the sequence to exhaustion
Advance ==
    \/ StartChat
    \/ TakeChunk
    \/ TakeEnd
    \/ TakeRaise
    \/ ResumeToolChat

\* the consumer keeps advancing the sequence, and the provider call, the
\* response stream and the sleep of line 45 each come to an end
SpecRunFair ==
    /\ Init
    /\ [][NextRun]_vars
    /\ WF_pc(Consume)
    /\ WF_vars(Advance)
    /\ WF_vars(Provide)

----------------------------------------------------------------------------
(* load_system_message_template and the construction of an agent's system   *)
(* message from the template it finds                                        *)

\* the model names an agent is constructed for
Models == {<<"gpt-4">>, <<"qwen">>}

\* Path(__file__).parent.parent of the loader: the installed package
PackageDir == <<<<"vindao_agents">>>>

\* line 6 and line 12: the directory of the system message templates under a
\* root directory
PromptsDir(root) == root \o <<<<"prompts">>, <<"system_message">>>>

\* line 7: the template of a model under the user directory
ModelPrompt(model, user_data_dir) ==
    PromptsDir(user_data_dir) \o <<model \o <<".prompt">>>>

\* lines 10 and 12: default.prompt under a root directory
DefaultPrompt(root) == PromptsDir(root) \o <<<<"default", ".prompt">>>>

\* a path as text
RECURSIVE PathText(_)
PathText(path) ==
    IF path = <<>> THEN <<>> ELSE <<"/">> \o Head(path) \o PathText(Tail(path))

\* what a template file holds: a greeting with a placeholder, and where it is
TemplateAt(path) == <<"I am ", "{{ name }}", " of ">> \o PathText(path)

\* the template files that may exist: the one of gpt-4 and default.prompt in
\* the user directory DataDir, and the packaged default.prompt
TemplatePaths ==
    {ModelPrompt(<<"gpt-4">>, DataDir), DefaultPrompt(DataDir), DefaultPrompt(PackageDir)}

\* load_system_message_template that prefers the user's default.prompt to the
\* template of the model
load_system_message_template_DefaultFirst(fs, model, user_data_dir) ==
    LET template_file == ModelPrompt(model, user_data_dir)
        user_default == DefaultPrompt(user_data_dir)
        default_path == DefaultPrompt(PackageDir)
        read(path) == IF path \in DOMAIN fs
                      THEN [path |-> path, template |-> fs[path], error |-> NoException]
                      ELSE [path |-> path, template |-> NoneText, error |-> FileNotFoundError]
    IN  IF user_default \in DOMAIN fs THEN read(user_default)
        ELSE IF template_file \in DOMAIN fs THEN read(template_file)
        ELSE read(default_path)

\* load_system_message_template lines 5-18 on the file system fs: the file it
\* reads and the text it returns, or the exception of read_text
load_system_message_template(fs, model, user_data_dir) ==
    LET template_file == ModelPrompt(model, user_data_dir)
        user_default == DefaultPrompt(user_data_dir)
        default_path == DefaultPrompt(PackageDir)
        read(path) == IF path \in DOMAIN fs
                      THEN [path |-> path, template |-> fs[path], error |-> NoException]
                      ELSE [path |-> path, template |-> NoneText, error |-> FileNotFoundError]
    IN  IF template_file \notin DOMAIN fs
        THEN IF user_default \notin DOMAIN fs
             THEN read(default_path)
             ELSE read(user_default)
        ELSE read(template_file)

\* format_prompt: the template rendered, each placeholder that names a key of
\* data replaced by its value
format_prompt(text, data) ==
    [i \in 1..Len(text) |-> IF text[i] \in DOMAIN data THEN data[text[i]] ELSE text[i]]

\* message_builder.py lines 57-66 for an agent with the default name
build_system_message(template) ==
    SystemMessage(format_prompt(template, [x \in {"{{ name }}"} |-> "Momo"]))

\* how a call of the loader, or a construction that calls it, ended
TemplateLoad(op, model, user_data_dir, r, agent) ==
    [op |-> op, model |-> model, user_data_dir |-> user_data_dir,
     path |-> r.path, template |-> r.template, error |-> r.error, agent |-> agent]

\* load_system_message_template(model, user_data_dir) is called
LoadTemplate ==
    /\ ops < MaxOps
    /\ \E model \in Models, dir \in UserDataDirs :
          loaded' = TemplateLoad("load_system_message_template", model, dir,
                                 load_system_message_template(files, model, dir),
                                 NoAgent)
    /\ ops' = ops + 1
    /\ UNCHANGED <<loopvars, parsevars, execvars, chatvars, defaults, agents,
                   ctor, files, writes>>

\* Agent(model=..., user_data_dir=...) without messages: lines 91-97 build the
\* system message from the template; an exception of the loader leaves
\* __init__ and no agent exists
NewAgentForModel ==
    /\ ops < MaxOps
    /\ \E model \in Models, dir \in UserDataDirs :
          LET r == load_system_message_template(files, model, dir)
              agent == [Agent([defaults EXCEPT !.user_data_dir = dir])
                           EXCEPT !.state.messages =
                                     <<build_system_message(r.template)>>]
          IN  IF r.error = NoException
              THEN /\ agents' = Append(agents, agent)
                   /\ ctor' = Append(ctor, [session_id |-> FALSE, messages |-> FALSE])
                   /\ loaded' = TemplateLoad("Agent", model, dir, r, agent)
              ELSE /\ UNCHANGED <<agents, ctor>>
                   /\ loaded' = TemplateLoad("Agent", model, dir, r, NoAgent)
    /\ ops' = ops + 1
    /\ UNCHANGED <<loopvars, parsevars, execvars, chatvars, defaults, files, writes>>

\* any of the template files may exist; nothing was loaded or constructed
InitTemplate ==
    /\ pc = "idle"
    /\ LoopAtRest
    /\ ExecAtRest
    /\ ChatAtRest
    /\ defaults = ClassDefaults
    /\ agents = <<>>
    /\ ctor = <<>>
    /\ \E S \in SUBSET TemplatePaths : files = [q \in S |-> TemplateAt(q)]
    /\ writes = <<>>
    /\ loaded = NoLoad
    /\ ops = 0

NextTemplate ==
    \/ LoadTemplate
    \/ NewAgentForModel

SpecTemplate == InitTemplate /\ [][NextTemplate]_vars

----------------------------------------------------------------------------
(* Vocabulary of the properties *)

Messages == state.messages

\* an Assistant message that references a ToolCall
HasToolCall(m) == m.role = "assistant" /\ m.tool_call # NoToolCall

\* the maximum-iterations instruction
IsWarning(m) == m.role = "user" /\ m.content = MaxIterationsText

\* the text of the content-kind chunks of a chunk sequence, concatenated
RECURSIVE ContentOf(_)
ContentOf(chunks) ==
    IF chunks = <<>> THEN <<>>
    ELSE (IF Head(chunks).kind = "content" THEN Head(chunks).text ELSE <<>>)
            \o ContentOf(Tail(chunks))

\* the content stream of the current round, as the provider emitted it
RoundContent == ContentOf(received)

\* the indices at which a complete call to a registered tool starts, as the
\* parser recognises calls
CallStarts(content, tool_names) ==
    {p \in 1..Len(content) :
        \E k \in 1..Len(tool_names) : MatchName(content, p, tool_names[k]) # 0}

\* messages i and i+1 are an Assistant message with a call and its Tool message
IsPair(msgs, i) ==
    /\ i + 1 <= Len(msgs)
    /\ HasToolCall(msgs[i])
    /\ msgs[i + 1].role = "tool"
    /\ msgs[i + 1].tool_call.id = msgs[i].tool_call.id

----------------------------------------------------------------------------
(* C1 *)

\* C1: in every reachable state (suspended at a yield, abandoned, finished or
\* failed), every Assistant message with a tool call is immediately followed by
\* exactly one Tool message with the same ToolCall id, and every Tool message
\* is immediately preceded by such an Assistant message.
C1_ToolCallPairs ==
    \A i \in 1..Len(Messages) :
        /\ HasToolCall(Messages[i]) =>
              /\ IsPair(Messages, i)
              /\ \A j \in 1..Len(Messages) :
                    (Messages[j].role = "tool"
                       /\ Messages[j].tool_call.id = Messages[i].tool_call.id)
                    => j = i + 1
        /\ Messages[i].role = "tool" => (i > 1 /\ IsPair(Messages, i - 1))

\* a run was abandoned at a yield after a tool call had been recorded
C1_Witness ==
    /\ pc = "abandoned"
    /\ \E i \in 1..Len(Messages) : IsPair(Messages, i)

----------------------------------------------------------------------------
(* C2 *)

\* C2: with a budget N >= 1, a run (started at iteration 0) makes at most N
\* provider requests and executes at most N - 1 tool calls, whatever the model
\* emits.
C2_IterationBudget ==
    config.max_iterations >= 1 =>
        /\ rounds <= config.max_iterations
        /\ execs <= config.max_iterations - 1

\* the model emitted a call in every round and the budget was used up
C2_Witness ==
    /\ pc = "done"
    /\ config.max_iterations >= 2
    /\ rounds = config.max_iterations
    /\ execs = config.max_iterations - 1

----------------------------------------------------------------------------
(* C3 *)

----------------------------------------------------------------------------
(* C4 *)

\* C4: when a run with a budget of 2 or more, started at iteration 0, in which
\* the model answered without any tool call has finished, the conversation
\* holds a User message with the text "maximum number of iterations".
C4_WarningAfterPlainAnswer ==
    (pc = "done" /\ config.max_iterations >= 2 /\ execs = 0 /\ RoundContent # <<>>) =>
        \E i \in 1..Len(Messages) : IsWarning(Messages[i])

----------------------------------------------------------------------------
(* C5 *)

\* a round is over: suspended at its tool item, or returned after the final message
RoundOver == rounds >= 1 /\ pc \in {"tool", "done"}

\* C5 as stated: when the content of a finished round holds two or more
\* complete calls to registered tools, exactly one tool execution and one tool
\* item occurred in that round.
C5_ExactlyOnePerRound ==
    (RoundOver /\ Cardinality(CallStarts(RoundContent, tools)) >= 2) =>
        (round_execs = 1 /\ round_items = 1)

\* C5 as amended: no round executes more than one tool call or yields more
\* than one tool item; a finished round whose content holds two or more
\* complete calls executed exactly one and yielded exactly one item if
\* detection was enabled in it (it was not entered at iteration
\* max_iterations - 1 and its content does not begin with the marker), and
\* none otherwise; the next round starts from empty accumulators.
C5_AtMostOnePerRound ==
    /\ round_execs <= 1
    /\ round_items <= 1
    /\ tool_exc.ordinary => round_items = round_execs
    /\ (RoundOver /\ Cardinality(CallStarts(RoundContent, tools)) >= 2) =>
          IF iteration # max_iterations - 1 /\ ~StartsWith(RoundContent, Marker)
          THEN round_execs = 1 /\ pc = "tool"
          ELSE round_execs = 0 /\ pc = "done"
    /\ (pc = "chunk" /\ Len(received) = 1) =>
          accumulated_content \o accumulated_reasoning = received[1].text

\* two complete calls arrived in one chunk and one of them was executed
C5_Witness ==
    /\ pc = "tool"
    /\ Cardinality(CallStarts(RoundContent, tools)) >= 2
    /\ round_execs = 1
    /\ round_items = 1

----------------------------------------------------------------------------
(* C6 *)

\* what the current run has appended
RunMessages == SubSeq(Messages, run_start + 1, Len(Messages))

\* msgs[from..to] is a sequence of (Assistant with call, Tool) pairs
PairsOnly(msgs, from, to) ==
    /\ (to - from + 1) % 2 = 0
    /\ \A i \in from..to : ((i - from) % 2 = 0) => IsPair(msgs, i)

\* the final Assistant message
IsFinal(m) == m.role = "assistant" /\ m.tool_call = NoToolCall

\* C6 as stated: a complete instruct() run has appended the User instruction,
\* then k >= 0 pairs, then one final Assistant message, and nothing else.
C6_RunShape ==
    (pc = "done" /\ entry = "instruct") =>
        LET r == RunMessages
        IN  /\ Len(r) >= 2
            /\ r[1] = UserMessage(instruction)
            /\ PairsOnly(r, 2, Len(r) - 1)
            /\ IsFinal(r[Len(r)])

\* C6 as amended: a complete instruct() run has appended the User instruction,
\* then k >= 0 pairs, then the maximum-iterations User message if and only if
\* its last round was entered at iteration max_iterations - 1, then one final
\* Assistant message, which is the last message, and nothing else.
C6_RunShapeWithWarning ==
    (pc = "done" /\ entry = "instruct") =>
        LET r == RunMessages
            w == IF iteration = max_iterations - 1 THEN 1 ELSE 0
        IN  /\ Len(r) >= 2 + w
            /\ r[1] = UserMessage(instruction)
            /\ PairsOnly(r, 2, Len(r) - 1 - w)
            /\ w = 1 => IsWarning(r[Len(r) - 1])
            /\ IsFinal(r[Len(r)])
            /\ Len(r) = 2 + w + 2 * execs

\* a complete run with a pair, the maximum-iterations message and the final message
C6_Witness ==
    /\ pc = "done"
    /\ entry = "instruct"
    /\ execs >= 1
    /\ warned

----------------------------------------------------------------------------
(* C7 *)

IsPrefix(a, b) == Len(a) <= Len(b) /\ SubSeq(b, 1, Len(a)) = a

\* C7: every step leaves the message sequence it found as a prefix of the one
\* it leaves, and a step that appends sets updated_at to the time of the append.
C7_AppendOnly ==
    [][/\ IsPrefix(state.messages, state'.messages)
       /\ state'.messages # state.messages => state'.updated_at = clock]_vars

\* a message was appended after the clock had moved on
C7_Witness ==
    /\ Len(Messages) > 1
    /\ clock > 0
    /\ state.updated_at = clock

----------------------------------------------------------------------------
(* C8 *)

\* C8: in a round whose content stream begins with the marker, however it is
\* split into chunks, no tool is executed, no tool item is yielded and no Tool
\* message is appended.
C8_MarkerSuppresses ==
    (rounds >= 1 /\ StartsWith(RoundContent, Marker)) =>
        /\ round_execs = 0
        /\ round_items = 0
        /\ pc # "tool"
        /\ \A i \in (Len(sent) + 1)..Len(Messages) : Messages[i].role # "tool"
        /\ pc = "done" => IsFinal(Messages[Len(Messages)])

\* the marker came in two chunks, a complete call followed, the round finished
C8_Witness ==
    /\ pc = "done"
    /\ Len(received) = 2
    /\ ~StartsWith(received[1].text, Marker)
    /\ StartsWith(RoundContent, Marker)
    /\ CallStarts(RoundContent, tools) # {}

----------------------------------------------------------------------------
(* C9 *)

\* C9: the final Assistant message of a round whose content stream begins with
\* the marker does not contain the marker.
C9_MarkerStripped ==
    (pc = "done" /\ StartsWith(RoundContent, Marker)) =>
        ~Contains(Messages[Len(Messages)].content, Marker)

----------------------------------------------------------------------------
(* C10 *)

\* the index of the ")" that closes the argument list opened before index i,
\* parentheses nested to any depth; 0 when it is not closed
RECURSIVE ClosingParen(_, _, _)
ClosingParen(content, i, depth) ==
    IF i > Len(content) THEN 0
    ELSE IF content[i] = "(" THEN ClosingParen(content, i + 1, depth + 1)
    ELSE IF content[i] = ")"
         THEN IF depth = 0 THEN i ELSE ClosingParen(content, i + 1, depth - 1)
    ELSE ClosingParen(content, i + 1, depth)

\* a well-formed call @name(args) starts at index p: the index of its closing
\* parenthesis, 0 when there is none
WellFormedEnd(content, p, name) ==
    IF /\ p + 1 + Len(name) <= Len(content)
       /\ content[p] = "@"
       /\ OccursAt(content, name, p + 1)
       /\ content[p + 1 + Len(name)] = "("
    THEN ClosingParen(content, p + 2 + Len(name), 0)
    ELSE 0

\* C10: when the text holds a well-formed call to a registered name, with
\* parentheses balanced to any depth, parse returns the first such call, from
\* its name to its matching closing parenthesis.
C10_ParseReturnsCall ==
    pc = "parsed" =>
        \A p \in 1..Len(ptext) : \A k \in 1..Len(pnames) :
            (/\ WellFormedEnd(ptext, p, pnames[k]) # 0
             /\ \A q \in 1..(p - 1) : \A j \in 1..Len(pnames) :
                    WellFormedEnd(ptext, q, pnames[j]) = 0)
            => presult = [name |-> pnames[k],
                          call |-> SubSeq(ptext, p + 1,
                                          WellFormedEnd(ptext, p, pnames[k]))]

----------------------------------------------------------------------------
(* Calls as the executor reads them: Python closes a call at the ")" that   *)
(* balances its "(", and a parenthesis inside a string literal is text      *)

\* the index of the ")" that closes the argument list opened before index i,
\* with `depth` inner parentheses open and `quoted` inside a string literal;
\* 0 when it is not closed
RECURSIVE CallEnd(_, _, _, _)
CallEnd(content, i, depth, quoted) ==
    IF i > Len(content) THEN 0
    ELSE IF quoted THEN CallEnd(content, i + 1, depth, content[i] # Quote)
    ELSE IF content[i] = Quote THEN CallEnd(content, i + 1, depth, TRUE)
    ELSE IF content[i] = "(" THEN CallEnd(content, i + 1, depth + 1, FALSE)
    ELSE IF content[i] = ")"
         THEN IF depth = 0 THEN i ELSE CallEnd(content, i + 1, depth - 1, FALSE)
    ELSE CallEnd(content, i + 1, depth, FALSE)

\* a complete call @name(args) starts at index p: the index of its closing
\* parenthesis, 0 when there is none
CompleteEnd(content, p, name) ==
    IF /\ p <= Len(content)
       /\ content[p] = "@"
       /\ OccursAt(content, name, p + 1)
    THEN LET q == SkipSpace(content, p + 1 + Len(name))
         IN  IF q <= Len(content) /\ content[q] = "("
             THEN CallEnd(content, q + 1, 0, FALSE)
             ELSE 0
    ELSE 0

\* a complete call to one of the names starts at index p
CompleteAt(content, p, tool_names) ==
    \E k \in 1..Len(tool_names) : CompleteEnd(content, p, tool_names[k]) # 0

----------------------------------------------------------------------------
(* C11 *)

\* C11: for every text that holds no complete call to a registered name
\* (a call to an unregistered name, or a prefix of a call that ends before the
\* parenthesis that closes it as the executor reads it, a parenthesis inside
\* a string literal closing nothing), parse returns no match.
C11_IncompleteNoMatch ==
    (pc = "parsed" /\ \A p \in 1..Len(ptext) : ~CompleteAt(ptext, p, pnames))
        => presult = NoMatch

----------------------------------------------------------------------------
(* C12 *)

\* a registered name follows an "@" at index p
NameFollowsAt(content, p, tool_names) ==
    /\ content[p] = "@"
    /\ \E k \in 1..Len(tool_names) : OccursAt(content, tool_names[k], p + 1)

\* C12: whenever parse returns a call, its name is one of tool_names (so the
\* registry lookup of Agent.invoke line 144 finds it); for a text in which no
\* registered name follows an "@", and so for every text when the registry is
\* empty, parse returns no match.
C12_NameRegistered ==
    pc = "parsed" =>
        /\ presult # NoMatch => \E k \in 1..Len(pnames) : pnames[k] = presult.name
        /\ (\A p \in 1..Len(ptext) : ~NameFollowsAt(ptext, p, pnames))
              => presult = NoMatch

----------------------------------------------------------------------------
(* C13 *)

\* text that looks like a call to a registered tool starts at index p:
\* "@", a name, optional white space, "("
CallHeadAt(content, p, tool_names) ==
    /\ content[p] = "@"
    /\ \E k \in 1..Len(tool_names) :
          /\ OccursAt(content, tool_names[k], p + 1)
          /\ LET q == SkipSpace(content, p + 1 + Len(tool_names[k]))
             IN  q <= Len(content) /\ content[q] = "("

\* where the match that parse returns starts; 0 when there is no match
MatchStart(content, tool_names) ==
    IF \E p \in 1..Len(content) : MatchesAt(content, p, tool_names)
    THEN CHOOSE p \in 1..Len(content) :
            /\ MatchesAt(content, p, tool_names)
            /\ \A q \in 1..(p - 1) : ~MatchesAt(content, q, tool_names)
    ELSE 0

\* C13: when the first call-like text of the content is a complete call (as
\* the executor reads it) and its argument list holds call-like text, nested
\* or inside a string literal, parse returns the outer call: the match starts
\* where the outer call starts and carries its name, at every nesting depth.
C13_OuterCall ==
    pc = "parsed" =>
        \A p \in 1..Len(ptext) : \A k \in 1..Len(pnames) :
            LET e == CompleteEnd(ptext, p, pnames[k])
            IN  (/\ e # 0
                 /\ \A q \in 1..(p - 1) : ~CallHeadAt(ptext, q, pnames)
                 /\ \E q \in (p + 1)..(e - 1) : CallHeadAt(ptext, q, pnames))
                => /\ presult.name = pnames[k]
                   /\ MatchStart(ptext, pnames) = p

----------------------------------------------------------------------------
(* C14 *)

\* the names in the opposite order
Reverse(s) == [i \in 1..Len(s) |-> s[Len(s) + 1 - i]]

\* the name of the call that starts at index p, p in CallStarts
CallName(content, p, tool_names) ==
    tool_names[CHOOSE k \in 1..Len(tool_names) :
                  MatchName(content, p, tool_names[k]) # 0]

\* the call that starts at index p, p in CallStarts: its name and its text
\* from the name to the closing parenthesis
CallAt(content, p, tool_names) ==
    LET name == CallName(content, p, tool_names)
    IN  [name |-> name, call |-> SubSeq(content, p + 1, MatchName(content, p, name))]

\* two complete calls of the content do not overlap
TwoCallsApart(content, tool_names) ==
    \E p1, p2 \in CallStarts(content, tool_names) :
        /\ p1 < p2
        /\ MatchName(content, p1, CallName(content, p1, tool_names)) < p2

\* the smallest element of a non-empty set of indices
Least(S) == CHOOSE x \in S : \A y \in S : x <= y

----------------------------------------------------------------------------
(* C15 *)

\* how the evaluation of the expression ended, inside execute_tool_call
Evaluated == eval(xcall, xtool)

\* the expression compiles and is a call of the tool
IsToolCall(expression, tool) ==
    LET toks == Lex(expression, 1, <<>>)
    IN  /\ IsExpression(toks)
        /\ Len(toks) >= 3
        /\ toks[1] = tool.name
        /\ toks[2] = <<"(">>

\* C15: execute_tool_call never lets an exception out: whatever the tool and
\* the expression, it returns, and when the evaluation raised (in compiling,
\* in looking up a name, in binding the arguments or inside the tool) what it
\* returns is a text that holds the exception's type and message.
C15_NeverRaises ==
    pc = "executed" =>
        /\ xout.kind = "return"
        /\ Evaluated.kind = "raise" =>
              /\ xout.value.type = "str"
              /\ Contains(xout.value.text,
                          <<Evaluated.exc.type, ": ", Evaluated.exc.msg>>)

----------------------------------------------------------------------------
(* C16 *)

\* the expression is a call of the tool and refers to a name that is not the
\* tool's
RefersElsewhere(expression, tool) ==
    /\ IsToolCall(expression, tool)
    /\ LET toks == Lex(expression, 1, <<>>)
       IN  \E i \in 1..Len(toks) : IsName(toks[i]) /\ toks[i] # tool.name

\* C16: a call of the tool that refers to any identifier other than the tool's own
\* name (another name, a module, a builtin) fails with a name error, which is
\* returned as diagnostic text: nothing but the tool is reachable from it.
C16_OnlyToolName ==
    (pc = "executed" /\ RefersElsewhere(xcall, xtool)) =>
        xout = Return(StrValue(format_exception(NameError)))

----------------------------------------------------------------------------
(* C17 *)

----------------------------------------------------------------------------
(* C18 *)

\* C18: a failing tool never ends the run.  The step in which the detected
\* call raises ends suspended at the tool item, whose result is the diagnostic
\* text; the step that follows it appends the Assistant message with the call
\* and the Tool message with that text and enters the next round, at
\* iteration + 1.  No exception leaves invoke.
C18_FailingToolRecovered ==
    [][/\ (pc = "chunk" /\ tool_exc' # NoException) =>
              /\ pc' = "tool"
              /\ round_items' = 1
              /\ tool_call_obj'.result = format_exception(tool_exc')
       /\ (pc = "tool" /\ tool_exc # NoException /\ pc' \notin {"tool", "abandoned"}) =>
              LET n == Len(state.messages)
              IN  /\ Len(state'.messages) >= n + 2
                  /\ state'.messages[n + 1] =
                        AssistantMessage(accumulated_content,
                                         Strip(accumulated_reasoning), tool_call_obj)
                  /\ state'.messages[n + 2] =
                        ToolMessage(format_exception(tool_exc), tool_call_obj.name,
                                    tool_call_obj)
                  /\ iteration' = iteration + 1
                  /\ rounds' = rounds + 1
                  /\ pc' \in {"chunk", "done", "raised"}]_vars

----------------------------------------------------------------------------
(* C19 *)

\* the items of a sequence of chunks: for each chunk its reasoning text, then
\* its content text, those that are not empty
RECURSIVE ItemsOf(_)
ItemsOf(chunks) ==
    IF chunks = <<>> THEN <<>>
    ELSE LET d == Head(chunks)
         IN  (IF d.reasoning_content \notin {NoneText, <<>>}
              THEN <<[text |-> d.reasoning_content, kind |-> "reasoning"]>>
              ELSE <<>>)
             \o (IF d.content \notin {NoneText, <<>>}
                 THEN <<[text |-> d.content, kind |-> "content"]>>
                 ELSE <<>>)
             \o ItemsOf(Tail(chunks))

\* C19: when an invocation has returned after k failed attempts, k is at most
\* max_retries, it made k + 1 provider calls and slept k times, for 2^0, 2^1,
\* ..., 2^(k-1), each sleep between a failed call and the next call, and the
\* items delivered last are those of the successful attempt's chunks,
\* unchanged and in order; they are all that was delivered when the failed
\* attempts failed in the provider call.
C19_RetryThenSuccess ==
    cpc = "returned" =>
        /\ failures <= max_retries
        /\ attempts = failures + 1
        /\ sleeps = [i \in 1..failures |-> 2 ^ (i - 1)]
        /\ Len(chat_log) = 2 * failures + 1
        /\ \A i \in 1..Len(chat_log) :
              chat_log[i] = IF i % 2 = 1
                            THEN [op |-> "call", arg |-> (i - 1) \div 2]
                            ELSE [op |-> "sleep", arg |-> 2 ^ ((i \div 2) - 1)]
        /\ SubSeq(delivered, attempt_start + 1, Len(delivered)) = ItemsOf(attempt_chunks)
        /\ attempt_start = 0 => delivered = ItemsOf(attempt_chunks)

\* the provider call failed three times and the fourth attempt streamed a
\* chunk with content, which was delivered
C19_Witness ==
    /\ cpc = "returned"
    /\ max_retries = DefaultMaxRetries
    /\ failures = 3
    /\ attempts = 4
    /\ sleeps = <<1, 2, 4>>
    /\ delivered = <<[text |-> <<"c">>, kind |-> "content"]>>

----------------------------------------------------------------------------
(* C20 *)

\* C20: an invocation retries only while fewer than max_retries retries have
\* been made: it makes at most max_retries + 1 provider calls and one sleep
\* per retry; it raises only after the call that follows max_retries retries
\* has failed, and then makes no further call and no further sleep; every
\* invocation starts with a retry count of 0.
C20_RetryBudget ==
    [][/\ retry' <= max_retries'
       /\ attempts' <= max_retries' + 1
       /\ Len(sleeps') = retry'
       /\ attempts' \in {retry', retry' + 1}
       /\ cpc' = "raised" =>
             /\ retry' = max_retries'
             /\ attempts' = max_retries' + 1
             /\ failures' = max_retries' + 1
             /\ Len(sleeps') = max_retries'
       /\ cpc = "raised" =>
             \/ attempts' = attempts /\ sleeps' = sleeps /\ cpc' = "raised"
             \/ cpc' = "request" /\ attempts' = 0 /\ sleeps' = <<>>
       /\ (cpc \in {"idle", "returned", "raised"} /\ cpc' = "request") =>
             retry' = 0]_vars

\* an invocation with the default budget has used it up and raised
C20_Witness ==
    /\ cpc = "raised"
    /\ max_retries = DefaultMaxRetries
    /\ attempts = DefaultMaxRetries + 1
    /\ sleeps = <<1, 2, 4, 8, 16>>

----------------------------------------------------------------------------
(* C22 *)

\* an item the current run yielded in its current round
InCurrentRound(item) == item.round = rounds

\* C22: in every round the items invoke has yielded are the chunks it received
\* from complete_chat, each once and in the order received, followed by the
\* tool item if a call was detected; the tool item comes right after the chunk
\* that completed the first detected call (no shorter prefix of the received
\* chunks holds a call), and after a tool item the run yields items of later
\* rounds only.
C22_ChunksInOrder ==
    /\ rounds >= 1 =>
          LET items == SelectSeq(yielded, InCurrentRound)
              n == Len(received)
          IN  /\ Len(items) = n + round_items
              /\ \A i \in 1..n : items[i] = ChunkItem(rounds, received[i])
              /\ round_items = 1 =>
                    /\ n >= 1
                    /\ items[n + 1].kind = "tool"
                    /\ items[n + 1].tool_call.call
                          = parse(ContentOf(received), tools).call
                    /\ \A k \in 0..(n - 1) :
                          parse(ContentOf(SubSeq(received, 1, k)), tools) = NoMatch
    /\ \A i \in 1..(Len(yielded) - 1) :
          /\ yielded[i].round <= yielded[i + 1].round
          /\ yielded[i].kind = "tool" => yielded[i].round < yielded[i + 1].round

\* a call came in two chunks: both were yielded, then the tool item
C22_Witness ==
    /\ pc = "tool"
    /\ Len(received) = 2
    /\ Len(yielded) = 3
    /\ yielded[3].kind = "tool"

----------------------------------------------------------------------------
(* C23 *)

\* C23: when the consumer stops iterating at a yield, and for as long as the
\* run stays abandoned, the conversation state is left as it was (nothing is
\* appended, nothing is removed) and the store is not invoked; a run stopped
\* at a tool item has executed the tool, and no message of the conversation
\* references that ToolCall.
C23_AbandonLeavesState ==
    [][pc' = "abandoned" =>
          /\ state' = state
          /\ store' = store
          /\ pc = "tool" =>
                /\ round_execs' = 1
                /\ execs' >= 1
                /\ \A i \in 1..Len(state'.messages) :
                      state'.messages[i].tool_call.id # tool_call_obj'.id]_vars

\* an instruct run was abandoned at its tool item: the instruction is in the
\* conversation, the call is not
C23_Witness ==
    /\ pc = "abandoned"
    /\ entry = "instruct"
    /\ round_items = 1
    /\ tool_call_obj # NoToolCall
    /\ Messages[Len(Messages)] = UserMessage(instruction)

----------------------------------------------------------------------------
(* C24 *)

\* C24: with auto_save disabled no step invokes the store.  With auto_save
\* enabled the store is invoked by the step that ends a run in "done" and by
\* no other step (not by one that ends at a tool item, abandons the run or
\* ends it with an exception), once, and what it saves is the state with the
\* final Assistant message as its last message.
C24_SaveOncePerDoneRun ==
    [][IF config.auto_save /\ pc # "done" /\ pc' = "done"
       THEN /\ store' = Append(store, Snapshot(config, state'))
            /\ Len(state'.messages) > Len(state.messages)
            /\ IsFinal(state'.messages[Len(state'.messages)])
       ELSE store' = store]_vars

\* a run with a tool round and a final round has saved once
C24_Witness ==
    /\ pc = "done"
    /\ config.auto_save
    /\ execs >= 1
    /\ Len(store) = 1
    /\ IsFinal(store[1].state.messages[Len(store[1].state.messages)])

----------------------------------------------------------------------------
(* C30 *)

\* C30: the first message of a fresh agent's conversation is the System
\* message, and no other message has the system role, in every state.
C30_SystemFirstOnly ==
    /\ Len(Messages) >= 1
    /\ Messages[1] = SystemMessage(SystemPrompt)
    /\ \A i \in 2..Len(Messages) : Messages[i].role # "system"

\* a run that got the maximum-iterations instruction has finished
C30_Witness ==
    /\ pc = "done"
    /\ warned
    /\ Len(Messages) >= 4

----------------------------------------------------------------------------
(* C21 *)

\* C21: from the call of complete_chat on, no step of it (a provider call, a
\* chunk passed on, an exception, a backoff sleep, a retry) changes the
\* message list it was given, and every provider call of the invocation is
\* built from the list as it was at the call and is given the same formatted
\* messages as the first attempt.
C21_RetryKeepsMessages ==
    [][attempts' >= 1 =>
          /\ messages' = messages
          /\ messages' = called_with'
          /\ \A i \in 1..Len(requests') :
                /\ requests'[i].messages = called_with'
                /\ requests'[i].formatted_messages
                      = requests'[1].formatted_messages]_vars

\* two attempts failed and a third request was issued for a conversation
C21_Witness ==
    /\ failures >= 2
    /\ Len(sleeps) >= 2
    /\ Len(requests) >= 3
    /\ messages # <<>>

----------------------------------------------------------------------------
(* C29 *)

\* C29: what a provider call is given has one wire message per conversation
\* message, in the same order, each with the content of its message and with
\* its role, except that a Tool message has the role "user" and keeps its
\* tool name; the conversation messages are as they were before the
\* translation.
C29_WireMessages ==
    \A r \in 1..Len(requests) :
        LET m == requests[r].messages
            w == requests[r].formatted_messages
        IN  /\ Len(w) = Len(m)
            /\ \A i \in 1..Len(m) :
                  /\ w[i].content = m[i].content
                  /\ w[i].role = IF m[i].role = "tool" THEN "user" ELSE m[i].role
                  /\ m[i].role = "tool" => w[i].name = m[i].name
            /\ m = called_with
            /\ messages = called_with

\* a conversation with a Tool message was translated and sent
C29_Witness ==
    \E r \in 1..Len(requests) :
        \E i \in 1..Len(requests[r].messages) :
            /\ requests[r].messages[i].role = "tool"
            /\ requests[r].formatted_messages[i].role = "user"
            /\ requests[r].formatted_messages[i].name = NameT
            /\ requests[r].formatted_messages[1].role = "system"

----------------------------------------------------------------------------
(* C25 *)

\* the saves the store made, up to the first n saves, of an agent with the
\* given session id and data directory
StoreSaves(session_id, user_data_dir, n) ==
    {i \in 1..n :
        /\ writes[i].by = "store"
        /\ writes[i].saved.state.session_id = session_id
        /\ writes[i].saved.config.user_data_dir = user_data_dir}

Greatest(S) == CHOOSE x \in S : \A y \in S : y <= x

\* C25: when from_session_id(S, D) is called after the store has saved, under
\* its default path, an agent with session id S and data directory D, it
\* succeeds and the agent it returns has the record of the latest such save.
C25_ResumeBySessionId ==
    LET saves == StoreSaves(loaded.session_id, loaded.user_data_dir, loaded.at)
    IN  (loaded.op = "from_session_id" /\ saves # {}) =>
            /\ loaded.error = NoException
            /\ Data(loaded.agent) = writes[Greatest(saves)].data

----------------------------------------------------------------------------
(* C26 *)

\* C26: an agent loaded from the document a save wrote has as many messages
\* as the agent that was saved, with the same roles and contents in the same
\* order, every (Assistant with call, Tool) pair is again such a pair with
\* the same ToolCall id, and the record of the loaded agent equals the
\* document it was loaded from.
C26_RoundTrip ==
    loaded.write > 0 =>
        LET w == writes[loaded.write]
            old == w.saved.state.messages
        IN  /\ loaded.error = NoException
            /\ LET new == loaded.agent.state.messages
               IN  /\ Len(new) = Len(old)
                   /\ \A i \in 1..Len(old) :
                         /\ new[i].role = old[i].role
                         /\ new[i].content = old[i].content
                         /\ IsPair(old, i) =>
                               /\ IsPair(new, i)
                               /\ new[i].tool_call.id = old[i].tool_call.id
            /\ Data(loaded.agent) = w.data

\* a saved conversation with a tool-call pair, appended to, was loaded
C26_Witness ==
    /\ loaded.op = "from_json_file"
    /\ loaded.error = NoException
    /\ Len(loaded.agent.state.messages) = Len(Restored) + 1
    /\ \E i \in 1..Len(loaded.agent.state.messages) :
          IsPair(loaded.agent.state.messages, i)

----------------------------------------------------------------------------
(* C27 *)

\* C27: two agents constructed without a session_id argument have different
\* session ids, and no save of one of them writes the path of a save of the
\* other.
C27_DistinctSessionIds ==
    \A i, j \in 1..Len(agents) :
        (i < j /\ ~ctor[i].session_id /\ ~ctor[j].session_id) =>
            /\ agents[i].state.session_id # agents[j].state.session_id
            /\ \A a, b \in 1..Len(writes) :
                  (writes[a].agent = i /\ writes[b].agent = j
                     /\ writes[a].by = "store" /\ writes[b].by = "store")
                  => writes[a].path # writes[b].path

----------------------------------------------------------------------------
(* C28 *)

StoreWrites == {i \in 1..Len(writes) : writes[i].by = "store"}

\* C28: all saves of an agent by its store go to one path, the one of its
\* session id; two saves with no mutation in between write equal records;
\* after a save the file holds the record of that save and nothing of an
\* earlier one, so among the files there is one record of the agent however
\* often it was saved.
C28_SaveIdempotent ==
    /\ \A i, j \in StoreWrites :
          writes[i].agent = writes[j].agent =>
              /\ writes[i].path = writes[j].path
              /\ writes[i].path = DefaultPath(agents[writes[i].agent])
              /\ writes[i].saved = writes[j].saved => writes[i].data = writes[j].data
    /\ \A i \in 1..Len(writes) :
          /\ writes[i].path \in DOMAIN files
          /\ LastWrite(writes[i].path) = i => files[writes[i].path] = writes[i].data
    /\ \A k \in 1..Len(agents) :
          Cardinality({q \in DOMAIN files :
                         \E i \in StoreWrites :
                             writes[i].agent = k /\ writes[i].path = q}) <= 1

\* an agent was saved, appended to and saved again: one file, the later record
C28_Witness ==
    /\ Cardinality(DOMAIN files) = 1
    /\ \E i, j \in StoreWrites :
          /\ i < j
          /\ writes[i].agent = writes[j].agent
          /\ writes[i].data # writes[j].data
          /\ \A q \in DOMAIN files : files[q] = writes[j].data

----------------------------------------------------------------------------
(* C31 *)

\* C31: no step of instruct/invoke changes the agent configuration, the tool
\* registry, the session id or created_at; of the agent, a run changes only
\* the message sequence and updated_at.
C31_RunFrame ==
    [][/\ config' = config
       /\ tools' = tools
       /\ state'.session_id = state.session_id
       /\ state'.created_at = state.created_at
       /\ DOMAIN state' = DOMAIN state]_vars

\* a run with a tool round has finished after the clock moved: messages were
\* appended and updated_at was set, created_at is still the construction time
C31_Witness ==
    /\ pc = "done"
    /\ execs >= 1
    /\ Len(Messages) > run_start + 2
    /\ state.updated_at > state.created_at

----------------------------------------------------------------------------
(* C39 *)

\* C39: in a run entered at iteration 0 with max_iterations <= 0 the
\* iteration never equals max_iterations - 1: no round appends the
\* maximum-iterations message, detection is off in a round only through the
\* marker, and every executed call is followed by a further round.
C39_BudgetNeverBinds ==
    [][(config.max_iterations <= 0 /\ rounds' >= 1) =>
          /\ ~warned'
          /\ \A k \in 1..Len(state'.messages) : ~IsWarning(state'.messages[k])
          /\ tool_call_enabled' \/ StartsWith(ContentOf(received'), Marker)
          /\ (pc = "tool" /\ pc' \notin {"tool", "abandoned"}) =>
                /\ rounds' = rounds + 1
                /\ iteration' = iteration + 1
                /\ iteration' > max_iterations' - 1]_vars

\* with the budget 0 a run has gone through three rounds and two executions
C39_Witness ==
    /\ config.max_iterations = 0
    /\ pc = "done"
    /\ rounds = 3
    /\ execs = 2
    /\ iteration = 2

----------------------------------------------------------------------------
(* C38 *)

\* the text of the reasoning-kind chunks of a chunk sequence, concatenated
RECURSIVE ReasoningOf(_)
ReasoningOf(chunks) ==
    IF chunks = <<>> THEN <<>>
    ELSE (IF Head(chunks).kind = "reasoning" THEN Head(chunks).text ELSE <<>>)
            \o ReasoningOf(Tail(chunks))

\* a text without the marker it begins with
WithoutLeadingMarker(content) ==
    IF StartsWith(content, Marker)
    THEN SubSeq(content, Len(Marker) + 1, Len(content))
    ELSE content

\* the messages the current run has appended whose content comes from the model
ModelMessages ==
    {k \in (run_start + 1)..Len(Messages) : Messages[k].role = "assistant"}

\* C38 as stated: a call is executed only when the content chunks of the round
\* hold one, and the final Assistant message has the round's reasoning chunks
\* as its reasoning_content and the round's content chunks, minus a leading
\* marker, as its content.
C38_ContentOnly ==
    /\ round_execs >= 1 => parse(RoundContent, tools) # NoMatch
    /\ pc = "done" =>
          /\ Messages[Len(Messages)].reasoning_content = ReasoningOf(received)
          /\ Messages[Len(Messages)].content = WithoutLeadingMarker(RoundContent)

\* C38 amended: as above, the final content being the round's content chunks
\* minus a leading marker and minus the whitespace that followed the marker.
C38_ContentOnlyStripped ==
    /\ round_execs >= 1 => parse(RoundContent, tools) # NoMatch
    /\ pc = "tool" => tool_call_obj.call = parse(RoundContent, tools).call
    /\ pc = "done" =>
          /\ Messages[Len(Messages)].reasoning_content = ReasoningOf(received)
          /\ Messages[Len(Messages)].content =
                IF StartsWith(RoundContent, Marker)
                THEN LStrip(WithoutLeadingMarker(RoundContent))
                ELSE RoundContent
          /\ ReasoningOf(received) # <<>> /\ RoundContent = <<>> =>
                Messages[Len(Messages)].content = <<>>

\* a round whose reasoning chunk held a complete call to the registered tool
\* ended without an execution; its final message keeps the two kinds apart
C38_Witness ==
    /\ pc = "done"
    /\ tools = <<NameT>>
    /\ rounds = 1
    /\ execs = 0
    /\ ReasoningOf(received) = Call
    /\ RoundContent = Plain
    /\ Messages[Len(Messages)].content = Plain
    /\ Messages[Len(Messages)].reasoning_content = Call

----------------------------------------------------------------------------
(* C40 *)

\* C40: calling instruct(text) appends nothing and makes no provider request,
\* and neither does dropping the returned sequence unadvanced; the first
\* advance appends the User instruction before the first request, whose
\* message sequence is the conversation followed by the instruction, and by
\* the maximum-iterations message when max_iterations is 1.
C40_InstructIsLazy ==
    [][/\ (pc' = "created" /\ pc # "created") =>
             /\ state' = state
             /\ sent' = sent
             /\ rounds' = 0
       /\ (pc = "created" /\ pc' = "abandoned") =>
             /\ state' = state
             /\ sent' = sent
             /\ rounds' = 0
       /\ (pc = "created" /\ entry = "instruct" /\ pc' \notin {"created", "abandoned"}) =>
             LET asked == Append(state.messages, UserMessage(instruction))
             IN  /\ rounds' = 1
                 /\ sent' = IF config.max_iterations = 1
                            THEN Append(asked, UserMessage(MaxIterationsText))
                            ELSE asked]_vars

\* the first request of an instruct() run was made: its last message is the
\* instruction, which was not in the conversation when instruct() was called
C40_Witness ==
    /\ entry = "instruct"
    /\ pc = "chunk"
    /\ rounds = 1
    /\ config.max_iterations # 1
    /\ Len(sent) = run_start + 1
    /\ sent[Len(sent)] = UserMessage(instruction)

----------------------------------------------------------------------------
(* C35 *)

\* C35: when the loop appends an Assistant/Tool pair, the Tool message's
\* content is the ToolCall's result and its name the ToolCall's name, which is
\* a registered tool name; the Assistant message's content is the content the
\* round had accumulated up to and including the chunk that completed the
\* call, and the call text occurs in it preceded by "@".
C35_PairContents ==
    [][(pc = "tool" /\ Len(state'.messages) > Len(state.messages)) =>
          LET n == Len(state.messages)
              a == state'.messages[n + 1]
              t == state'.messages[n + 2]
              call == a.tool_call
          IN  /\ IsPair(state'.messages, n + 1)
              /\ call = tool_call_obj
              /\ t.tool_call = call
              /\ t.content = call.result
              /\ t.name = call.name
              /\ \E k \in 1..Len(tools) : tools[k] = call.name
              /\ a.content = ContentOf(received)
              /\ received[Len(received)].kind = "content"
              /\ Contains(a.content, <<"@">> \o call.call)
              /\ yielded[Len(yielded)] = ToolItem(rounds, call)]_vars

\* a pair was appended whose call was completed by the second content chunk
\* of its round
C35_Witness ==
    /\ pc = "done"
    /\ execs = 1
    /\ \E n \in 1..(Len(Messages) - 1) :
          /\ IsPair(Messages, n)
          /\ Messages[n].content = CallHead \o CallTail
          /\ Messages[n].tool_call.call = <<"t", "(", ")">>
          /\ Messages[n + 1].content = Messages[n].tool_call.result
          /\ Messages[n + 1].content = <<"5">>

----------------------------------------------------------------------------
(* C33 *)

\* C33: the round entered after a detected call of a round at iteration i
\* with budget N has iteration i + 1 and budget N; a run starts at iteration
\* 0; no other step changes the iteration or the budget, in particular no
\* provider call, failure, sleep or retry inside a round; so the iteration of
\* a round is the number of tool calls executed and recorded before it.
C33_IterationPerCall ==
    [][/\ (pc = "tool" /\ pc' = "fetch") =>
             /\ iteration' = iteration + 1
             /\ max_iterations' = max_iterations
             /\ rounds' = rounds + 1
       /\ (pc = "created" /\ pc' = "fetch") =>
             /\ iteration' = 0
             /\ max_iterations' = config.max_iterations
       /\ ~(pc \in {"tool", "created"} /\ pc' = "fetch") =>
             /\ iteration' = iteration
             /\ max_iterations' = max_iterations
       /\ (attempts' # attempts \/ retry' # retry \/ sleeps' # sleeps) /\ pc = "fetch" =>
             /\ iteration' = iteration
             /\ rounds' = rounds
             /\ execs' = execs
       /\ pc' \in {"fetch", "chunk"} => iteration' = execs'
       /\ pc' = "tool" => iteration' = execs' - 1]_vars

\* the second round of a run, entered after one executed call, needed two
\* retries and ended: its iteration is 1
C33_Witness ==
    /\ pc = "done"
    /\ rounds = 2
    /\ execs = 1
    /\ iteration = 1
    /\ retry = 2
    /\ failures = 2
    /\ sleeps = <<1, 2>>

----------------------------------------------------------------------------
(* C37 *)

\* C37: complete_chat raises to invoke only when the attempt after its last
\* retry has failed, and the exception then leaves invoke: the step appends
\* no message and saves nothing; the conversation is the one the round's
\* requests carried, which for an instruct() run is the earlier conversation,
\* the User instruction, the pairs of the earlier rounds and, in the last
\* round of the budget, the maximum-iterations message; its last message is
\* no Assistant message of the failed round.
C37_RaiseKeepsConversation ==
    [][(pc = "fetch" /\ pc' = "raised") =>
          LET r == RunMessages
              w == IF iteration = max_iterations - 1 THEN 1 ELSE 0
          IN  /\ cpc = "raised"
              /\ max_retries = DefaultMaxRetries
              /\ retry = max_retries
              /\ failures = max_retries + 1
              /\ attempts = max_retries + 1
              /\ state' = state
              /\ store' = store
              /\ yielded' = yielded
              /\ Messages = sent
              /\ \A k \in 1..Len(requests) : requests[k].messages = Messages
              /\ entry = "instruct" =>
                    /\ r[1] = UserMessage(instruction)
                    /\ PairsOnly(r, 2, Len(r) - w)
                    /\ w = 1 => IsWarning(r[Len(r)])
                    /\ Len(r) = 1 + w + 2 * iteration
              /\ Messages[Len(Messages)].role \in {"user", "tool"}]_vars

\* the second and last round of a run with the budget 2 used up its retries:
\* the run has raised, and the instruction, the pair of the first round and
\* the maximum-iterations message are the last messages of the conversation
C37_Witness ==
    /\ pc = "raised"
    /\ cpc = "raised"
    /\ entry = "instruct"
    /\ config.auto_save
    /\ config.max_iterations = 2
    /\ rounds = 2
    /\ attempts = DefaultMaxRetries + 1
    /\ Len(RunMessages) = 4
    /\ IsPair(RunMessages, 2)
    /\ IsWarning(Messages[Len(Messages)])
    /\ store = <<>>

----------------------------------------------------------------------------
(* C36 *)

\* C36: when a complete_chat invocation has returned, what its caller received
\* is the item sequence of the attempt that succeeded, and the content the
\* loop accumulated in a finished round is that attempt's content.
C36_FailedAttemptDiscarded ==
    /\ cpc = "returned" => delivered = ItemsOf(attempt_chunks)
    /\ (pc = "done" /\ cpc = "returned") =>
          /\ received = ItemsOf(attempt_chunks)
          /\ RoundContent = ContentOf(ItemsOf(attempt_chunks))

----------------------------------------------------------------------------
(* C34 *)

\* the run was not iterated to exhaustion, a tool call did not return, or the
\* provider failed max_retries + 1 times in a row
Excused ==
    \/ pc = "abandoned"
    \/ pc = "raised" /\ ~tool_exc.ordinary
    \/ pc = "raised" /\ cpc = "raised"

\* C34: every instruct() run with max_iterations >= 1 that is iterated to
\* exhaustion, whose tool calls return and whose rounds do not use up the
\* retries, ends in DONE; after DONE no further round of that run is entered.
C34_RunTerminates ==
    /\ (pc = "created" /\ entry = "instruct" /\ config.max_iterations >= 1)
          ~> (pc = "done" \/ Excused)
    /\ [][pc = "done" => (rounds' = rounds \/ pc' = "created")]_vars

\* what remains of C34 when the KeyError of an unregistered name is set
\* aside: such a run with an empty registry may end with that exception
C34_TerminatesUnlessKeyError ==
    /\ (pc = "created" /\ entry = "instruct" /\ config.max_iterations >= 1)
          ~> (pc = "done" \/ Excused \/ (pc = "raised" /\ tools = <<>>))
    /\ [][pc = "done" => (rounds' = rounds \/ pc' = "created")]_vars

----------------------------------------------------------------------------
(* C32 *)

\* C32: a call of load_system_message_template(model, dir), alone or from an
\* agent's construction, returns the text of the model's template in dir if
\* that file exists, otherwise of default.prompt in dir if that exists,
\* otherwise of the packaged default.prompt; when none exists it raises, and
\* the construction that called it raises too and leaves no agent.
C32_TemplatePriority ==
    [][loaded' # loaded =>
          LET candidates == <<ModelPrompt(loaded'.model, loaded'.user_data_dir),
                              DefaultPrompt(loaded'.user_data_dir),
                              DefaultPrompt(PackageDir)>>
              present == {k \in 1..3 : candidates[k] \in DOMAIN files}
          IN  /\ present # {} =>
                    /\ loaded'.error = NoException
                    /\ loaded'.path = candidates[Least(present)]
                    /\ loaded'.template = files[loaded'.path]
                    /\ loaded'.op = "Agent" =>
                          /\ agents' = Append(agents, loaded'.agent)
                          /\ loaded'.agent.state.messages =
                                <<SystemMessage(<<"I am ", "Momo", " of ">>
                                                  \o PathText(loaded'.path))>>
              /\ present = {} =>
                    /\ loaded'.error = FileNotFoundError
                    /\ loaded'.agent = NoAgent
                    /\ agents' = agents]_vars

\* all three templates exist and an agent was constructed for gpt-4 in the
\* directory that holds its template: the system message comes from it
C32_Witness ==
    /\ DOMAIN files = TemplatePaths
    /\ loaded.op = "Agent"
    /\ loaded.model = <<"gpt-4">>
    /\ loaded.path = ModelPrompt(<<"gpt-4">>, DataDir)
    /\ Len(agents) >= 1
    /\ agents[Len(agents)].state.messages[1].content =
          <<"I am ", "Momo", " of ", "/", "data", "/", "prompts", "/",
            "system_message", "/", "gpt-4", ".prompt">>

====
